---- MODULE Spec2Model ----
(***************************************************************************)
(* Plugin host runtime of jianying_assistant/plugins: sdk.py (PluginSDK,   *)
(* PluginContext) and plugin_host.py (PluginHost).                         *)
(*                                                                         *)
(* Threads of the program and how they appear here:                        *)
(*   - the main thread runs PluginHost.run: connect(), then the asyncio    *)
(*     loop (connectPc);                                                   *)
(*   - the socket thread runs ws.run_forever and calls on_open,            *)
(*     on_message, on_close one after the other (sockPc);                  *)
(*   - plugin code calling call_app from any thread (callers);             *)
(*   - handler executions scheduled on the loop / its executor (tasks for  *)
(*     requests, sched for notifications, whose outcome nothing uses).     *)
(*                                                                         *)
(* Granularity: a step is a stretch of code between two points where a     *)
(* thread can be descheduled for long: a lock acquisition, a blocking      *)
(* wait, socket or file I/O, a hand-over to the loop or to the executor,   *)
(* a call into plugin code.                                                *)
(***************************************************************************)
EXTENDS Integers, Sequences, FiniteSets, TLC

(* ------------------------------ bounds -------------------------------- *)

\* outbound calls issued at most, all calling threads together
MaxCalls == 2

\* the threads of plugin code that issue outbound calls
Callers == {1, 2}

\* async_wrapper coroutines alive at a time
MaxTasks == 1
\* PluginContext objects created at most
MaxCtx == 2
\* items of the plugin root at most
MaxFolders == 2
\* writes to the log sink at most
MaxWrites == 2
\* requests handed to the loop at most
MaxCoros == 3
\* load and unload requests the application leaves unanswered at a time
\* when it does not serialize them
MaxRace == 2

\* the ids the application loads plugins under
PluginIds == {"p1", "p2"}
\* the event names plugin code subscribes to with on(...)
Events == {"evt", "scan_plugins"}
\* the methods PluginHost registers under "host"
HostMethods == {"load_plugin", "unload_plugin", "scan_plugins"}
\* the ids of the inbound requests
RequestIds == {1, 2}

(* ------------------------------ values -------------------------------- *)

\* JSON values of a response's "result" member, by shape.  err is the
\* "message" of the value stored under the key "error" when the value is
\* a dict that has that key, and "-" otherwise.
\* status is the value under the key "status" of the dicts the host's own
\* handlers return, and "-" otherwise.
JNull == [kind |-> "null", err |-> "-", status |-> "-"]
JList == [kind |-> "list", err |-> "-", status |-> "-"]
JDict == [kind |-> "dict", err |-> "-", status |-> "-"]
JDictWithErrorKey == [kind |-> "dict", err |-> "boom", status |-> "-"]
ResultValues == {JNull, JList, JDict, JDictWithErrorKey}
\* {"status": "ok"}, {"status": "not_found"}, {"error": str(e)}
StatusOk == [kind |-> "dict", err |-> "-", status |-> "ok"]
StatusNotFound == [kind |-> "dict", err |-> "-", status |-> "not_found"]
ErrorResult == [kind |-> "dict", err |-> "load failed", status |-> "-"]

\* a dict d after del d[k] / d.pop(k), and after d[k] = v
Without(f, k) == [i \in DOMAIN f \ {k} |-> f[i]]
With(f, k, v) == [i \in DOMAIN f \cup {k} |-> IF i = k THEN v ELSE f[i]]

\* str(uuid.uuid4()) of the n-th call issued: fresh for every call
CallId(n) == 10 + n
\* correlation ids no call ever had
UnknownIds == {9}

\* An inbound frame after json.loads: id 0 and method "-" stand for an absent
\* member (data.get gives None), pluginId "-" for params without pluginId,
\* arg is params["id"] of load_plugin / unload_plugin ("-" when absent),
\* error tells whether the frame has an "error" member. Id -1 stands for a
\* message that is no JSON text, of which json.loads gives nothing.
InFrame(i, m, p, a, isErr, r) ==
    [id |-> i, method |-> m, pluginId |-> p, arg |-> a, error |-> isErr, result |-> r]
NoFrame == InFrame(0, "-", "-", "-", FALSE, JNull)
\* the arg of a frame whose "params" is no JSON object (null, a list, a
\* scalar), so that params.get raises AttributeError
NonObject == "[]"
Unparseable == InFrame(-1, "-", "-", "-", FALSE, JNull)
\* what rx keeps of a frame: its id, method and params, not its payload
Header(f) == [f EXCEPT !.error = FALSE, !.result = JNull]
\* {"jsonrpc":"2.0","id":i,"result":r} and {"jsonrpc":"2.0","id":i,"error":{..}}
ResponseFrame(i, isErr, r) == InFrame(i, "-", "-", "-", isErr, r)

\* An outbound frame: a request of call_app, or a response to an inbound
\* request (code 0: a result; -32601 / -32603: an error)
OutRequest(i) == [kind |-> "request", id |-> i, code |-> 0, result |-> JNull]
OutResult(i, r) == [kind |-> "response", id |-> i, code |-> 0, result |-> r]
OutError(i, c) == [kind |-> "response", id |-> i, code |-> c, result |-> JNull]
\* {"jsonrpc":"2.0","method":..,"params":{..}}: a notification has no id
OutNotification == [kind |-> "notification", id |-> 0, code |-> 0, result |-> JNull]

\* JSON-RPC error codes of the error responses
MethodNotFound == -32601
InternalError == -32603

\* A handler is a function object: a bound method of PluginHost (ctx 0), or
\* the function the setup of context ctx passed to on(fn); co tells whether
\* it is a coroutine function (async def).
HostFn(m) == [ctx |-> 0, fn |-> m, co |-> FALSE]
PluginFn(k, e, co) == [ctx |-> k, fn |-> e, co |-> co]
NoHandler == [ctx |-> 0, fn |-> "-", co |-> FALSE]

\* plugin_handlers is a dict; it is kept as the sequence of its entries in
\* insertion order, the order a walk of the dict follows.  An entry deleted
\* while a walk is under way stays as a dummy (key "") until the walk ends.
NoTable == [e \in {} |-> NoHandler]
Entry(k, t) == [key |-> k, tab |-> t]
Dummy == Entry("", NoTable)
Keys(ph) == {ph[i].key : i \in DOMAIN ph} \ {""}
TableOf(ph, pid) == ph[CHOOSE i \in DOMAIN ph : ph[i].key = pid].tab
\* plugin_handlers.get(pid, {}).get(m)
HandlersGet(ph, pid, m) ==
    IF pid \in Keys(ph) /\ m \in DOMAIN TableOf(ph, pid)
    THEN TableOf(ph, pid)[m]
    ELSE NoHandler
Compact(ph) == SelectSeq(ph, LAMBDA e : e.key # "")

\* what a handler execution ended with
NoResult == [kind |-> "none", val |-> JNull]
Returned(v) == [kind |-> "return", val |-> v]
Raised == [kind |-> "raise", val |-> JNull]

\* the response frame on_message stored for a call: none, an error frame,
\* or a success frame and its result
NoDelivery == [frame |-> "none", result |-> JNull]
Delivery(f) == [frame |-> IF f.error THEN "error" ELSE "result", result |-> f.result]

NoOutcome == [kind |-> "none", val |-> JNull]
Outcome(k, v) == [kind |-> k, val |-> v]

\* File names and plugin ids of the registry are text: sequences of
\* one-character strings.
\* no id: params.get("id") and manifest.get("id") give None
NoId == << >>
\* no directory: _find_plugin_dir returns None
NoDir == << >>
\* a call of a registry function: the id it was called with, the directory
\* it resolved, the module it executed main.py in (0: none), the value and,
\* for scan_plugins, the list it returned
NoCall == [op |-> "-", id |-> NoId, dir |-> NoDir, module |-> 0, value |-> JNull, list |-> << >>]
Call(op, id, dir, module, value, list) ==
    [op |-> op, id |-> id, dir |-> dir, module |-> module, value |-> value, list |-> list]

\* An async_wrapper coroutine: co tells whether its handler is a coroutine
\* function, calls whether the handler body still has a synchronous
\* outbound call to make (PluginContext._call), pc where it is: "none" (not
\* handed to the loop yet), "scheduled", "submitted" (a sync handler is in
\* the work queue of the executor), "running" (the handler body runs),
\* "waiting" (the handler body is inside call_app, in event.wait),
\* "awaiting" (a coroutine handler is suspended in an await of its own),
\* "respond" (the executor finished the handler, the coroutine is to be
\* resumed), "done"
NoCoro == [co |-> FALSE, calls |-> FALSE, pc |-> "none"]
Coro(co, calls, pc) == [co |-> co, calls |-> calls, pc |-> pc]

\* A params argument of PluginContext._call / _notify: None, or a dict
EmptyDict == [k \in {} |-> ""]
None == [given |-> FALSE, dict |-> EmptyDict]
Dict(d) == [given |-> TRUE, dict |-> d]
\* a merge in which the caller's own members win
MergedCallerWins(a, plugin_id) ==
    IF a.given /\ "pluginId" \in DOMAIN a.dict THEN a.dict
    ELSE With(IF a.given THEN a.dict ELSE EmptyDict, "pluginId", plugin_id)
\* {**(params or {}), "pluginId": plugin_id}
Merged(a, plugin_id) == With(IF a.given THEN a.dict ELSE EmptyDict, "pluginId", plugin_id)
\* the frame the method api of the context of plugin ctx built from the
\* arguments (method, args): a request of call_app or a notification
NoPayload ==
    [api |-> "-", ctx |-> "-", kind |-> "-", method |-> "-", args |-> None,
     params |-> EmptyDict]
Built(api, ctx, kind, method, a) ==
    [api |-> api, ctx |-> ctx, kind |-> kind, method |-> method, args |-> a,
     params |-> Merged(a, ctx)]

\* a call of get_ext_service(id) on context caller: whether it raised,
\* whether it found an instance, and the instance (0: None)
NoLookup == [caller |-> 0, id |-> "-", raised |-> FALSE, found |-> FALSE, instance |-> 0]
Lookup(c, pid, r) ==
    [caller |-> c, id |-> pid, raised |-> r.raised, found |-> r.found, instance |-> r.instance]

VARIABLES
    connectPc,         \* main thread: "start", "waiting", "running", "failed", "exited"
    sock,              \* transport: "none", "connecting", "open", "lost", "closed"
    connected_event,   \* PluginSDK._connected_event
    isRunning,         \* PluginSDK._is_running
    pending_requests,  \* keys of PluginSDK.pending_requests
    responses,         \* PluginSDK.responses
    callers,           \* per calling thread: pc, id, its Event's flag, the
                       \* response delivered to it, how call_app ended
    ncalls,            \* calls issued so far
    onWire,            \* correlation ids of the request frames sent
    sockPc,            \* socket thread inside on_message
    rx,                \* header of the inbound frame on_message was called with
                       \* in the last step
    wire,              \* the frames sent by the last step
    sched,             \* the handlers whose coroutine the last step handed to
                       \* the loop for a notification
    plugin_handlers,   \* PluginSDK.plugin_handlers, in the dict's entry order
    ext_service_instances,  \* PluginSDK.ext_service_instances
    plugins,           \* PluginHost.plugins: plugin id -> context
    ctxs,              \* the PluginContext objects created so far
    tasks,             \* the async_wrapper coroutines of the requests being
                       \* handled, in the order they were handed to the loop
    plugin_root,       \* os.listdir of the directory of plugin_host.py, with
                       \* what the registry reads of every item
    sys_modules,       \* sys.modules, the entries "plugin_..." of it
    ret,               \* the last call of a registry function and what it
                       \* returned
    worker_ident,      \* current_plugin_id in the context of the executor
                       \* thread that runs the sync handlers
    seen,              \* the plugin whose code the last step ran and the
                       \* current_plugin_id that code ran with
    original_stream,   \* LogRedirector.original_stream: what was written to
                       \* it, each piece with the write call it came from
    lookup,            \* the last call of get_ext_service and how it ended
    coros,             \* the async_wrapper coroutines in the order they were
                       \* handed to the loop, each with its handler
    loop_thread,       \* the coroutine whose handler body occupies the thread
                       \* of the asyncio loop (0: none, the loop is free)
    payload            \* the last frame a PluginContext built for ws.send,
                       \* with the call that built it

vars == <<connectPc, sock, connected_event, isRunning, pending_requests,
          responses, callers, ncalls, onWire, sockPc, rx, wire, sched,
          plugin_handlers, ext_service_instances, plugins, ctxs, tasks,
          plugin_root, sys_modules, ret, worker_ident, seen,
          original_stream, lookup, coros, loop_thread, payload>>

connVars == <<connectPc, sock, connected_event, isRunning>>
rpcVars == <<pending_requests, responses, callers, ncalls, onWire>>
hostVars == <<plugin_handlers, ext_service_instances, plugins, ctxs, tasks>>
\* what the steps of the connection and of the dispatcher never touch
registryVars == <<plugin_root, sys_modules, ret>>
\* the state of the functions specified on their own
loopVars == <<coros, loop_thread>>
libVars == <<registryVars, original_stream, lookup, loopVars, payload>>
\* what building a payload never touches
apiFrame == <<connVars, rpcVars, hostVars, sockPc, rx, wire, sched, registryVars,
              original_stream, lookup, worker_ident, seen, loopVars>>

\* no plugin code ran in the last step
NotSeen == [owner |-> "-", ident |-> "-"]
\* code of plugin owner ran with current_plugin_id.get() = ident
Seen(owner, ident) == [owner |-> owner, ident |-> ident]
\* a step that runs no plugin code and leaves the contexts alone
NoPluginCode == seen' = NotSeen /\ UNCHANGED worker_ident

\* the socket thread between two callbacks; inside on_message it is at
\* "store" (a response) or "bcast" (a broadcast: pos entries of
\* plugin_handlers walked, which had size entries when the walk began)
SockIdle == [st |-> "idle", frame |-> NoFrame, method |-> "-", pos |-> 0, size |-> 0]

\* the state after PluginHost.__init__
Constructed ==
    /\ connectPc = "start"
    /\ sock = "none"
    /\ connected_event = FALSE
    /\ isRunning = FALSE
    /\ pending_requests = {}
    /\ responses = [i \in {} |-> JNull]
    /\ callers = [c \in Callers |-> [pc |-> "idle", id |-> 0, ev |-> FALSE, got |-> NoDelivery, out |-> NoOutcome]]
    /\ ncalls = 0
    /\ onWire = {}
    /\ sockPc = SockIdle
    /\ rx = NoFrame
    /\ wire = << >>
    /\ sched = << >>
    /\ plugin_handlers = <<Entry("host", [m \in HostMethods |-> HostFn(m)])>>
    /\ ext_service_instances = [p \in {} |-> 0]
    /\ plugins = [p \in {} |-> 0]
    /\ ctxs = << >>
    /\ tasks = << >>
    /\ sys_modules = [n \in {} |-> 0]
    /\ ret = NoCall
    /\ worker_ident = "host"
    /\ seen = NotSeen
    /\ original_stream = << >>
    /\ lookup = NoLookup
    /\ coros = [k \in 1..MaxCoros |-> NoCoro]
    /\ loop_thread = 0
    /\ payload = NoPayload

\* the specifications of the connection and of the dispatcher never read
\* the plugin root
Init == Constructed /\ plugin_root = << >>

\* the process is still there: connect() has not failed and run() has not returned
HostAlive == connectPc \notin {"failed", "exited"}

(* ---------------------------- connection ------------------------------ *)

\* connect(): clear the event, create the WebSocketApp, start its thread
connect_start ==
    /\ connectPc = "start"
    /\ connectPc' = "waiting"
    /\ connected_event' = FALSE
    /\ sock' = "connecting"
    /\ wire' = << >>
    /\ rx' = NoFrame /\ sched' = << >> /\ UNCHANGED libVars
    /\ NoPluginCode
    /\ UNCHANGED <<hostVars, isRunning, rpcVars, sockPc>>

\* connect(): _connected_event.wait returned True
connect_done ==
    /\ connectPc = "waiting"
    /\ connected_event
    /\ isRunning' = TRUE
    /\ connectPc' = "running"
    /\ wire' = << >>
    /\ rx' = NoFrame /\ sched' = << >> /\ UNCHANGED libVars
    /\ NoPluginCode
    /\ UNCHANGED <<hostVars, sock, connected_event, rpcVars, sockPc>>

\* connect(): the wait timed out, ConnectionError, run() exits the process
connect_timeout ==
    /\ connectPc = "waiting"
    /\ ~connected_event
    /\ connectPc' = "failed"
    /\ wire' = << >>
    /\ rx' = NoFrame /\ sched' = << >> /\ UNCHANGED libVars
    /\ NoPluginCode
    /\ UNCHANGED <<hostVars, sock, connected_event, isRunning, rpcVars, sockPc>>

\* run(): main_loop sees _is_running false and run() returns
main_loop_exit ==
    /\ connectPc = "running"
    /\ ~isRunning
    /\ connectPc' = "exited"
    /\ wire' = << >>
    /\ rx' = NoFrame /\ sched' = << >> /\ UNCHANGED libVars
    /\ NoPluginCode
    /\ UNCHANGED <<hostVars, sock, connected_event, isRunning, rpcVars, sockPc>>

on_open ==
    /\ HostAlive
    /\ sock = "connecting"
    /\ sockPc.st = "idle"
    /\ sock' = "open"
    /\ connected_event' = TRUE
    /\ wire' = << >>
    /\ rx' = NoFrame /\ sched' = << >> /\ UNCHANGED libVars
    /\ NoPluginCode
    /\ UNCHANGED <<hostVars, connectPc, isRunning, rpcVars, sockPc>>

\* the connection is lost (closed by the peer, or never established); the
\* socket thread has not yet run on_close
sock_lost ==
    /\ HostAlive
    /\ sock \in {"connecting", "open"}
    /\ sock' = "lost"
    /\ wire' = << >>
    /\ rx' = NoFrame /\ sched' = << >> /\ UNCHANGED libVars
    /\ NoPluginCode
    /\ UNCHANGED <<hostVars, connectPc, connected_event, isRunning, rpcVars, sockPc>>

\* on_close that sets no Event
ForceCompleteNone(cs, pend) == cs

\* the Events of pending_requests.values() after event.set() on each
ForceComplete(cs, pend) ==
    [c \in Callers |-> IF cs[c].id \in pend THEN [cs[c] EXCEPT !.ev = TRUE] ELSE cs[c]]

on_close ==
    /\ HostAlive
    /\ sock = "lost"
    /\ sockPc.st = "idle"
    /\ sock' = "closed"
    /\ isRunning' = FALSE
    /\ callers' = ForceComplete(callers, pending_requests)
    /\ pending_requests' = {}
    /\ responses' = [i \in {} |-> JNull]
    /\ wire' = << >>
    /\ rx' = NoFrame /\ sched' = << >> /\ UNCHANGED libVars
    /\ NoPluginCode
    /\ UNCHANGED <<hostVars, connectPc, connected_event, ncalls, onWire, sockPc>>

(* ------------------------- outbound calls ----------------------------- *)

\* plugin code runs once the loop runs, and as long as the process lives
PluginCodeRuns == connectPc = "running"

SetCaller(c, pc, out) ==
    [callers EXCEPT ![c].pc = pc, ![c].out = out, ![c].got = NoDelivery]

\* call_app: msg_id = uuid4, event = Event(), pending_requests[msg_id] = event
call_app_register(c) ==
    /\ PluginCodeRuns
    /\ callers[c].pc \in {"idle", "done", "notified"}
    /\ ncalls < MaxCalls
    /\ ncalls' = ncalls + 1
    /\ callers' = [callers EXCEPT ![c] =
            [pc |-> "registered", id |-> CallId(ncalls + 1), ev |-> FALSE,
             got |-> NoDelivery, out |-> NoOutcome]]
    /\ pending_requests' = pending_requests \cup {CallId(ncalls + 1)}
    /\ wire' = << >>
    /\ rx' = NoFrame /\ sched' = << >> /\ UNCHANGED libVars
    /\ NoPluginCode
    /\ UNCHANGED <<hostVars, connVars, responses, onWire, sockPc>>

\* call_app: the connection check, then ws.send (which raises when the
\* socket is gone)
call_app_send(c) ==
    /\ PluginCodeRuns
    /\ callers[c].pc = "registered"
    /\ IF ~isRunning
         THEN /\ callers' = SetCaller(c, "done", Outcome("ConnectionError", JNull))
              /\ UNCHANGED onWire
              /\ wire' = << >>
         ELSE IF sock # "open"
         THEN /\ callers' = SetCaller(c, "done", Outcome("SendError", JNull))
              /\ UNCHANGED onWire
              /\ wire' = << >>
         ELSE /\ callers' = [callers EXCEPT ![c].pc = "waiting"]
              /\ onWire' = onWire \cup {callers[c].id}
              /\ wire' = <<OutRequest(callers[c].id)>>
    /\ rx' = NoFrame /\ sched' = << >> /\ UNCHANGED libVars
    /\ NoPluginCode
    /\ UNCHANGED <<hostVars, connVars, pending_requests, responses, ncalls, sockPc>>

\* what call_app makes of the popped slot: an error-shaped one raises
SlotOutcome(slot) ==
    IF slot.kind = "dict" /\ slot.err # "-"
    THEN Outcome("AppError", slot)
    ELSE Outcome("return", slot)

\* call_app: event.wait returned True; under the lock responses.pop(msg_id)
\* and del pending_requests[msg_id]
call_app_wake(c) ==
    /\ PluginCodeRuns
    /\ callers[c].pc = "waiting"
    /\ callers[c].ev
    /\ LET id == callers[c].id IN
       IF id \notin DOMAIN responses
       THEN /\ callers' = SetCaller(c, "done", Outcome("KeyErrorPop", JNull))
            /\ UNCHANGED <<responses, pending_requests>>
       ELSE /\ responses' = Without(responses, id)
            /\ IF id \in pending_requests
               THEN /\ pending_requests' = pending_requests \ {id}
                    /\ callers' = SetCaller(c, "done", SlotOutcome(responses[id]))
               ELSE /\ UNCHANGED pending_requests
                    /\ callers' = SetCaller(c, "done", Outcome("KeyErrorDel", JNull))
    /\ wire' = << >>
    /\ rx' = NoFrame /\ sched' = << >> /\ UNCHANGED libVars
    /\ NoPluginCode
    /\ UNCHANGED <<hostVars, connVars, ncalls, onWire, sockPc>>

\* call_app: event.wait(timeout) returned False
call_app_timeout(c) ==
    /\ PluginCodeRuns
    /\ callers[c].pc = "waiting"
    /\ ~callers[c].ev
    /\ callers' = [callers EXCEPT ![c].pc = "timedout"]
    /\ wire' = << >>
    /\ rx' = NoFrame /\ sched' = << >> /\ UNCHANGED libVars
    /\ NoPluginCode
    /\ UNCHANGED <<hostVars, connVars, pending_requests, responses, ncalls, onWire, sockPc>>

\* call_app: under the lock del pending_requests[msg_id], then TimeoutError
call_app_timeout_cleanup(c) ==
    /\ PluginCodeRuns
    /\ callers[c].pc = "timedout"
    /\ IF callers[c].id \in pending_requests
       THEN /\ pending_requests' = pending_requests \ {callers[c].id}
            /\ callers' = SetCaller(c, "done", Outcome("TimeoutError", JNull))
       ELSE /\ UNCHANGED pending_requests
            /\ callers' = SetCaller(c, "done", Outcome("KeyErrorDel", JNull))
    /\ wire' = << >>
    /\ rx' = NoFrame /\ sched' = << >> /\ UNCHANGED libVars
    /\ NoPluginCode
    /\ UNCHANGED <<hostVars, connVars, responses, ncalls, onWire, sockPc>>

\* a _notify that sends whatever the state of the connection
NotifyFramesUnchecked(running, s) == <<OutNotification>>
\* what _notify sends: the frame when ws is set, _is_running holds and the
\* send goes through; nothing otherwise (a send that raises is caught)
NotifyFrames(running, s) ==
    IF running /\ s = "open" THEN <<OutNotification>> ELSE << >>

\* PluginContext._notify called by a thread of plugin code that is not
\* inside call_app; params is None or a dict
notify(c) ==
    /\ PluginCodeRuns
    /\ callers[c].pc \in {"idle", "done", "notified"}
    /\ wire' = NotifyFrames(isRunning, sock)
    /\ callers' = [callers EXCEPT ![c].pc = "notified",
                                  ![c].out = Outcome("notify_returned", JNull)]
    /\ rx' = NoFrame /\ sched' = << >> /\ UNCHANGED libVars
    /\ NoPluginCode
    /\ UNCHANGED <<hostVars, connVars, pending_requests, responses, ncalls, onWire, sockPc>>

(* ----------------------- inbound: responses --------------------------- *)

\* the frames the application can send as responses: to a request it was
\* sent, or carrying an id it made up
InboundResponses ==
    {ResponseFrame(i, FALSE, r) : i \in onWire \cup UnknownIds, r \in ResultValues}
    \cup {ResponseFrame(i, TRUE, JNull) : i \in onWire \cup UnknownIds}

\* what on_message stores in responses[msg_id]
ResponseSlot(f) == IF f.error THEN JDictWithErrorKey ELSE f.result

\* a dispatcher that would take every response for an awaited one
AwaitedAny(pend, f) == TRUE
\* `msg_id in self.pending_requests`
Awaited(pend, f) == f.id \in pend

\* on_message, a response: the test `msg_id in self.pending_requests`
on_message_response(f) ==
    /\ HostAlive
    /\ sock = "open"
    /\ sockPc.st = "idle"
    /\ f.id # 0 /\ f.method = "-"
    /\ rx' = Header(f) /\ sched' = << >> /\ UNCHANGED libVars
    /\ NoPluginCode
    /\ sockPc' = IF Awaited(pending_requests, f)
                 THEN [st |-> "store", frame |-> f, method |-> "-", pos |-> 0, size |-> 0]
                 ELSE SockIdle
    /\ wire' = << >>
    /\ UNCHANGED <<hostVars, connVars, rpcVars>>

\* the Event stored under the frame's id after .set(): the flag of the
\* caller that owns it
SetEvent(cs, f) ==
    [c \in Callers |-> IF cs[c].id = f.id
                       THEN [cs[c] EXCEPT !.ev = TRUE, !.got = Delivery(f)]
                       ELSE cs[c]]

\* on_message, a response: under the lock responses[msg_id] = ..., then
\* pending_requests[msg_id].set() (a KeyError there is caught and printed)
on_message_store ==
    /\ HostAlive
    /\ sockPc.st = "store"
    /\ responses' = With(responses, sockPc.frame.id, ResponseSlot(sockPc.frame))
    /\ callers' = IF sockPc.frame.id \in pending_requests
                  THEN SetEvent(callers, sockPc.frame)
                  ELSE callers
    /\ sockPc' = SockIdle
    /\ wire' = << >>
    /\ rx' = NoFrame /\ sched' = << >> /\ UNCHANGED libVars
    /\ NoPluginCode
    /\ UNCHANGED <<hostVars, connVars, pending_requests, ncalls, onWire>>

\* the messages that are no request, no response and no notification: no
\* JSON text, or a JSON object with neither "id" nor "method"
IgnoredFrames ==
    {Unparseable} \cup {InFrame(0, "-", "p1", "-", e, r) : e \in BOOLEAN, r \in {JNull, JDict}}

\* on_message with such a message: json.loads raises, which the except
\* clause catches and prints, or none of the three branches is taken
on_message_ignored(f) ==
    /\ HostAlive
    /\ sock = "open"
    /\ sockPc.st = "idle"
    /\ f = Unparseable \/ (f.id = 0 /\ f.method = "-")
    /\ rx' = Header(f) /\ sched' = << >> /\ UNCHANGED libVars
    /\ NoPluginCode
    /\ wire' = << >>
    /\ UNCHANGED <<hostVars, connVars, rpcVars, sockPc>>

(* ----------------- inbound: requests and notifications ---------------- *)

IsLoadUnload(h) == h.ctx = 0 /\ h.fn \in {"load_plugin", "unload_plugin"}

\* The application keeps the load and unload operations on one plugin id
\* apart (spec section 5: the load/unload path must be serialized per id by
\* its callers): it sends none while one for that id is unanswered.
Serialized(f) ==
    f.method \in {"load_plugin", "unload_plugin"} =>
        \A k \in DOMAIN tasks : ~(IsLoadUnload(tasks[k].handler) /\ tasks[k].arg = f.arg)

\* the request and notification frames the application can send
InboundRequests ==
    {InFrame(i, m, p, "-", FALSE, JNull) :
        i \in RequestIds, m \in {"scan_plugins", "evt"}, p \in PluginIds \cup {"-"}}
    \cup {InFrame(i, m, "-", a, FALSE, JNull) :
        i \in RequestIds, m \in {"load_plugin", "unload_plugin"},
        a \in PluginIds \cup {"-", NonObject}}
InboundNotifications ==
    {InFrame(0, m, p, "-", FALSE, JNull) :
        m \in {"scan_plugins", "evt"}, p \in PluginIds \cup {"host", "-"}}
\* the application numbers its requests: the id of the next one is the
\* smallest one no unanswered request has
FreshRequestId(ts) ==
    CHOOSE i \in RequestIds :
        /\ \A k \in DOMAIN ts : ts[k].id # i
        /\ \A j \in RequestIds : (\A k \in DOMAIN ts : ts[k].id # j) => i <= j

\* the async_wrapper coroutine of a request, handed to the loop
NewTask(f, h) ==
    [id |-> f.id, handler |-> h, arg |-> f.arg, pc |-> "queued",
     result |-> NoResult, setup |-> << >>, ctx |-> 0, i |-> 0, invoked |-> << >>,
     token |-> "-"]

\* a dispatch that would look in the table of the named plugin first
LookupRequestPluginFirst(ph, f) ==
    IF f.pluginId # "-" /\ HandlersGet(ph, f.pluginId, f.method) # NoHandler
    THEN HandlersGet(ph, f.pluginId, f.method)
    ELSE HandlersGet(ph, "host", f.method)
\* dispatch_request: the handler it settles on
LookupRequest(ph, f) ==
    IF HandlersGet(ph, "host", f.method) # NoHandler
    THEN HandlersGet(ph, "host", f.method)
    ELSE IF f.pluginId # "-" /\ f.pluginId \in Keys(ph)
    THEN HandlersGet(ph, f.pluginId, f.method)
    ELSE NoHandler

\* on_message with a request (id and method): dispatch_request hands the
\* coroutine of the handler to the loop, or answers method-not-found
\* (limit: the requests the application leaves unanswered at a time)
dispatch_request_to_loop(f, limit) ==
    /\ HostAlive
    /\ sock = "open"
    /\ sockPc.st = "idle"
    /\ f.id # 0 /\ f.method # "-"
    /\ \E i \in RequestIds : \A k \in DOMAIN tasks : tasks[k].id # i
    /\ f.id = FreshRequestId(tasks)
    /\ LET handler == LookupRequest(plugin_handlers, f) IN
       IF handler # NoHandler
       THEN /\ Len(tasks) < limit
            /\ tasks' = Append(tasks, NewTask(f, handler))
            /\ wire' = << >>
       ELSE /\ UNCHANGED tasks
            /\ wire' = IF isRunning THEN <<OutError(f.id, MethodNotFound)>> ELSE << >>
    /\ rx' = Header(f) /\ sched' = << >> /\ UNCHANGED libVars
    /\ NoPluginCode
    /\ UNCHANGED <<connVars, rpcVars, sockPc, plugin_handlers,
                   ext_service_instances, plugins, ctxs>>

\* a request from an application that serializes load and unload per id
on_message_request(f) == Serialized(f) /\ dispatch_request_to_loop(f, MaxTasks)

\* dispatch_event: the coroutine handed to the loop when plugin_id has a
\* handler for the event; nothing waits for it and what the handler
\* returns or raises is dropped
DispatchEvent(ph, pid, m) ==
    IF HandlersGet(ph, pid, m) # NoHandler THEN <<HandlersGet(ph, pid, m)>> ELSE << >>

\* on_message, notification with a pluginId: `if p_id and p_id in
\* self.plugin_handlers: dispatch_event(p_id, ..)`
TargetedDispatch(ph, pid, m) ==
    IF pid \in Keys(ph) THEN DispatchEvent(ph, pid, m) ELSE << >>

\* on_message with a notification that carries a pluginId
on_message_notification_to(f) ==
    /\ HostAlive
    /\ sock = "open"
    /\ sockPc.st = "idle"
    /\ f.id = 0 /\ f.method # "-" /\ f.pluginId # "-"
    /\ sched' = TargetedDispatch(plugin_handlers, f.pluginId, f.method)
    /\ rx' = Header(f) /\ wire' = << >> /\ UNCHANGED libVars
    /\ NoPluginCode
    /\ UNCHANGED <<connVars, rpcVars, sockPc, hostVars>>

\* the entries after position pos whose plugin has a handler for method m
Hits(ph, pos, m) ==
    {j \in DOMAIN ph : j > pos /\ ph[j].key # "" /\ m \in DOMAIN ph[j].tab}
FirstHit(ph, pos, m) ==
    CHOOSE j \in Hits(ph, pos, m) : \A k \in Hits(ph, pos, m) : j <= k

\* `for p_id in self.plugin_handlers: dispatch_event(p_id, ...)` from entry
\* pos on, up to and including the next run_coroutine_threadsafe, where the
\* socket thread hands a coroutine to the loop; the walk ends when no entry
\* is left
Walk(m, pos, size) ==
    IF Hits(plugin_handlers, pos, m) = {}
    THEN /\ sockPc' = SockIdle
         /\ plugin_handlers' = Compact(plugin_handlers)
         /\ sched' = << >>
    ELSE LET j == FirstHit(plugin_handlers, pos, m) IN
         /\ sched' = DispatchEvent(plugin_handlers, plugin_handlers[j].key, m)
         /\ sockPc' = [st |-> "bcast", frame |-> NoFrame, method |-> m,
                       pos |-> j, size |-> size]
         /\ UNCHANGED plugin_handlers

\* on_message with a notification without pluginId: the walk begins
on_message_broadcast(f) ==
    /\ HostAlive
    /\ sock = "open"
    /\ sockPc.st = "idle"
    /\ f.id = 0 /\ f.method # "-" /\ f.pluginId = "-"
    /\ Walk(f.method, 0, Cardinality(Keys(plugin_handlers)))
    /\ rx' = Header(f) /\ wire' = << >> /\ UNCHANGED libVars
    /\ NoPluginCode
    /\ UNCHANGED <<connVars, rpcVars, ext_service_instances, plugins, ctxs, tasks>>

\* the dict iterator raises RuntimeError (caught and printed by on_message)
\* when the dict's size is no longer what it was when the walk began
SizeChanged == Cardinality(Keys(plugin_handlers)) # sockPc.size

\* the walk goes on
on_message_broadcast_next ==
    /\ HostAlive
    /\ sockPc.st = "bcast"
    /\ IF SizeChanged
       THEN /\ sockPc' = SockIdle
            /\ plugin_handlers' = Compact(plugin_handlers)
            /\ sched' = << >>
       ELSE Walk(sockPc.method, sockPc.pos, sockPc.size)
    /\ rx' = NoFrame /\ wire' = << >> /\ UNCHANGED libVars
    /\ NoPluginCode
    /\ UNCHANGED <<connVars, rpcVars, ext_service_instances, plugins, ctxs, tasks>>

(* ------------------------- handler executions ------------------------ *)

Remove(ts, k) == [j \in 1..(Len(ts) - 1) |-> IF j < k THEN ts[j] ELSE ts[j + 1]]

\* async_wrapper after its handler returned or raised: it goes on to send
\* the response
Finish(ts, k, res) == [ts EXCEPT ![k].pc = "respond", ![k].result = res]

\* what a handler written by a plugin ends with
PluginHandlerResults == {Returned(JNull), Returned(JDict), Raised}

\* a plugin's handler runs to its end
plugin_handler_runs(k, res) ==
    /\ k \in DOMAIN tasks
    /\ connectPc = "running"
    /\ tasks[k].pc = "queued"
    /\ tasks[k].handler.ctx # 0
    /\ tasks' = Finish(tasks, k, res)
    /\ rx' = NoFrame /\ sched' = << >> /\ wire' = << >> /\ UNCHANGED libVars
    /\ seen' = Seen(ctxs[tasks[k].handler.ctx].plugin_id,
                     IF tasks[k].handler.co
                     THEN ctxs[tasks[k].handler.ctx].plugin_id
                     ELSE worker_ident)
    /\ UNCHANGED worker_ident
    /\ UNCHANGED <<connVars, rpcVars, sockPc, plugin_handlers,
                   ext_service_instances, plugins, ctxs>>

\* PluginHost._handle_scan_plugins: returns the list of manifests
handle_scan_plugins(k) ==
    /\ k \in DOMAIN tasks
    /\ connectPc = "running"
    /\ tasks[k].pc = "queued"
    /\ tasks[k].handler = HostFn("scan_plugins")
    /\ tasks' = Finish(tasks, k, Returned(JList))
    /\ rx' = NoFrame /\ sched' = << >> /\ wire' = << >> /\ UNCHANGED libVars
    /\ NoPluginCode
    /\ UNCHANGED <<connVars, rpcVars, sockPc, plugin_handlers,
                   ext_service_instances, plugins, ctxs>>

\* an async_wrapper that would answer a raise like a return
ResponseOfResultOnly(t) == OutResult(t.id, t.result.val)
\* async_wrapper sends the response: {id, result} after a return, {id,
\* error: -32603} after a raise, nothing when not running; a send on a
\* socket that is gone raises, in the except clause too
ResponseOf(t) ==
    IF t.result.kind = "return"
    THEN OutResult(t.id, t.result.val)
    ELSE OutError(t.id, InternalError)

\* async_wrapper after the handler: the response is sent and the coroutine
\* is over
task_respond(k) ==
    /\ k \in DOMAIN tasks
    /\ connectPc = "running"
    /\ tasks[k].pc = "respond"
    /\ wire' = IF isRunning /\ sock = "open" THEN <<ResponseOf(tasks[k])>> ELSE << >>
    /\ tasks' = Remove(tasks, k)
    /\ rx' = NoFrame /\ sched' = << >> /\ UNCHANGED libVars
    /\ NoPluginCode
    /\ UNCHANGED <<connVars, rpcVars, sockPc, plugin_handlers,
                   ext_service_instances, plugins, ctxs>>

(* ------------------------------ load ---------------------------------- *)

\* PluginContext.__init__, then context._is_initializing = True
NewContext(pid) ==
    [plugin_id |-> pid, running |-> TRUE, initializing |-> TRUE,
     callbacks |-> << >>]

\* PluginSDK.register_handler
RegisterHandler(ph, pid, e, h) ==
    LET keyed == IF pid \in Keys(ph) THEN ph ELSE Append(ph, Entry(pid, NoTable)) IN
    [j \in DOMAIN keyed |->
        IF keyed[j].key = pid THEN Entry(pid, With(keyed[j].tab, e, h)) ELSE keyed[j]]

\* What the setup(api) of a plugin's main.py does with its context, call by
\* call: api.on(e)(func), api.on_teardown(func) (raises tells whether func
\* raises when it is called), api.register_ext_service(instance).
\* co: func is a coroutine function.
On(e) == [op |-> "on", event |-> e, raises |-> FALSE, co |-> FALSE]
OnAsync(e) == [op |-> "on", event |-> e, raises |-> FALSE, co |-> TRUE]
OnTeardown(raises) == [op |-> "on_teardown", event |-> "-", raises |-> raises, co |-> FALSE]
RegisterExtService == [op |-> "register_ext_service", event |-> "-", raises |-> FALSE, co |-> FALSE]
\* the setups of the plugins on disk
SetupPrograms ==
    { <<On("evt"), RegisterExtService, OnTeardown(TRUE), OnTeardown(FALSE)>>,
      <<On("scan_plugins")>>,
      <<OnAsync("evt")>>,
      << >> }

\* _handle_load_plugin up to the call of setup: params.get("id") raises when
\* params is no dict; a missing id returns {"error": ..}; then
\* current_plugin_id is set to the id, its token kept; the directory, main.py
\* and the module are found, main.py is executed and has a setup (ok), or
\* one of them fails, {"error": ..} is returned and the token reset; on
\* success the PluginContext is created
handle_load_plugin(k, ok, setup) ==
    /\ k \in DOMAIN tasks
    /\ connectPc = "running"
    /\ tasks[k].pc = "queued"
    /\ tasks[k].handler = HostFn("load_plugin")
    /\ IF tasks[k].arg = NonObject
       THEN /\ setup = << >> /\ ~ok
            /\ UNCHANGED ctxs
            /\ tasks' = Finish(tasks, k, Raised)
            /\ NoPluginCode
       ELSE IF tasks[k].arg # "-" /\ ok
       THEN /\ Len(ctxs) < MaxCtx
            /\ ctxs' = Append(ctxs, NewContext(tasks[k].arg))
            /\ tasks' = [tasks EXCEPT ![k].pc = "l_setup", ![k].setup = setup,
                                      ![k].ctx = Len(ctxs) + 1,
                                      ![k].token = worker_ident]
            /\ worker_ident' = tasks[k].arg
            /\ seen' = Seen(tasks[k].arg, tasks[k].arg)
       ELSE /\ setup = << >>
            /\ UNCHANGED ctxs
            /\ tasks' = Finish(tasks, k, Returned(ErrorResult))
            /\ NoPluginCode
    /\ rx' = NoFrame /\ sched' = << >> /\ wire' = << >> /\ UNCHANGED libVars
    /\ UNCHANGED <<connVars, rpcVars, sockPc, plugin_handlers,
                   ext_service_instances, plugins>>

\* the call setup makes next, NoOp when it has made them all
NoOp == [op |-> "return", event |-> "-", raises |-> FALSE, co |-> FALSE]
NextOp(t) == IF t.pc = "l_setup" /\ t.i < Len(t.setup) THEN t.setup[t.i + 1] ELSE NoOp

\* setup(context) calls context.on(e)(func)
setup_on(k) ==
    /\ k \in DOMAIN tasks
    /\ connectPc = "running"
    /\ NextOp(tasks[k]).op = "on"
    /\ plugin_handlers' = RegisterHandler(plugin_handlers, tasks[k].arg,
                                          NextOp(tasks[k]).event,
                                          PluginFn(tasks[k].ctx, NextOp(tasks[k]).event,
                                                   NextOp(tasks[k]).co))
    /\ tasks' = [tasks EXCEPT ![k].i = @ + 1]
    /\ rx' = NoFrame /\ sched' = << >> /\ wire' = << >> /\ UNCHANGED libVars
    /\ seen' = Seen(tasks[k].arg, worker_ident)
    /\ UNCHANGED worker_ident
    /\ UNCHANGED <<connVars, rpcVars, sockPc, ext_service_instances, plugins, ctxs>>

\* setup(context) calls context.on_teardown(func)
setup_on_teardown(k) ==
    /\ k \in DOMAIN tasks
    /\ connectPc = "running"
    /\ NextOp(tasks[k]).op = "on_teardown"
    /\ ctxs' = [ctxs EXCEPT ![tasks[k].ctx].callbacks = Append(@, NextOp(tasks[k]).raises)]
    /\ tasks' = [tasks EXCEPT ![k].i = @ + 1]
    /\ rx' = NoFrame /\ sched' = << >> /\ wire' = << >> /\ UNCHANGED libVars
    /\ seen' = Seen(tasks[k].arg, worker_ident)
    /\ UNCHANGED worker_ident
    /\ UNCHANGED <<connVars, rpcVars, sockPc, plugin_handlers,
                   ext_service_instances, plugins>>

\* setup(context) calls context.register_ext_service(instance)
setup_register_ext_service(k) ==
    /\ k \in DOMAIN tasks
    /\ connectPc = "running"
    /\ NextOp(tasks[k]).op = "register_ext_service"
    /\ ext_service_instances' = With(ext_service_instances, tasks[k].arg, tasks[k].ctx)
    /\ tasks' = [tasks EXCEPT ![k].i = @ + 1]
    /\ rx' = NoFrame /\ sched' = << >> /\ wire' = << >> /\ UNCHANGED libVars
    /\ seen' = Seen(tasks[k].arg, worker_ident)
    /\ UNCHANGED worker_ident
    /\ UNCHANGED <<connVars, rpcVars, sockPc, plugin_handlers, plugins, ctxs>>

\* setup(context) raises: caught, {"error": str(e)} is returned
load_setup_raises(k) ==
    /\ k \in DOMAIN tasks
    /\ connectPc = "running"
    /\ tasks[k].pc = "l_setup"
    /\ tasks' = Finish(tasks, k, Returned(ErrorResult))
    /\ rx' = NoFrame /\ sched' = << >> /\ wire' = << >> /\ UNCHANGED libVars
    /\ seen' = Seen(tasks[k].arg, worker_ident)
    /\ worker_ident' = tasks[k].token
    /\ UNCHANGED <<connVars, rpcVars, sockPc, plugin_handlers,
                   ext_service_instances, plugins, ctxs>>

\* setup(context) returned: _is_initializing = False, plugins[id] = context
load_finish(k) ==
    /\ k \in DOMAIN tasks
    /\ connectPc = "running"
    /\ tasks[k].pc = "l_setup"
    /\ NextOp(tasks[k]) = NoOp
    /\ ctxs' = [ctxs EXCEPT ![tasks[k].ctx].initializing = FALSE]
    /\ plugins' = With(plugins, tasks[k].arg, tasks[k].ctx)
    /\ tasks' = Finish(tasks, k, Returned(StatusOk))
    /\ rx' = NoFrame /\ sched' = << >> /\ wire' = << >> /\ UNCHANGED libVars
    /\ seen' = NotSeen
    /\ worker_ident' = tasks[k].token
    /\ UNCHANGED <<connVars, rpcVars, sockPc, plugin_handlers, ext_service_instances>>

(* ----------------------------- unload --------------------------------- *)

\* an unload that would leave the handlers of the plugin registered
UnregisterPluginKeeps(ph, pid) == ph
\* PluginSDK.unregister_plugin
UnregisterPlugin(ph, pid) ==
    IF sockPc.st = "bcast"
    THEN [j \in DOMAIN ph |-> IF ph[j].key = pid THEN Dummy ELSE ph[j]]
    ELSE SelectSeq(ph, LAMBDA e : e.key # pid)

\* _handle_unload_plugin: params.get("id") raises when params is no dict;
\* `plugin_id in self.plugins`, else not_found
handle_unload_plugin(k) ==
    /\ k \in DOMAIN tasks
    /\ connectPc = "running"
    /\ tasks[k].pc = "queued"
    /\ tasks[k].handler = HostFn("unload_plugin")
    /\ tasks' = IF tasks[k].arg = NonObject
                THEN Finish(tasks, k, Raised)
                ELSE IF tasks[k].arg \in DOMAIN plugins
                THEN [tasks EXCEPT ![k].pc = "u_teardown"]
                ELSE Finish(tasks, k, Returned(StatusNotFound))
    /\ rx' = NoFrame /\ sched' = << >> /\ wire' = << >> /\ UNCHANGED libVars
    /\ NoPluginCode
    /\ UNCHANGED <<connVars, rpcVars, sockPc, plugin_handlers,
                   ext_service_instances, plugins, ctxs>>

\* context = self.plugins[plugin_id]; trigger_teardown: _is_running = False
\* and the extension service of the plugin is deleted
unload_teardown(k) ==
    /\ k \in DOMAIN tasks
    /\ connectPc = "running"
    /\ tasks[k].pc = "u_teardown"
    /\ IF tasks[k].arg \notin DOMAIN plugins
       THEN /\ tasks' = Finish(tasks, k, Raised)
            /\ UNCHANGED <<ctxs, ext_service_instances>>
       ELSE LET c == plugins[tasks[k].arg] IN
            /\ ctxs' = [ctxs EXCEPT ![c].running = FALSE]
            /\ ext_service_instances' = Without(ext_service_instances, ctxs[c].plugin_id)
            /\ tasks' = [tasks EXCEPT ![k].pc = "u_callbacks", ![k].ctx = c, ![k].i = 0]
    /\ rx' = NoFrame /\ sched' = << >> /\ wire' = << >> /\ UNCHANGED libVars
    /\ NoPluginCode
    /\ UNCHANGED <<connVars, rpcVars, sockPc, plugin_handlers, plugins>>

\* a teardown that would stop at the first callback that raises
CallbacksLeftUntilRaise(cbs, i) == i < Len(cbs) /\ \A j \in 1..i : ~cbs[j]
\* whether the walk of the callback list has a callback left after i of them
CallbacksLeft(cbs, i) == i < Len(cbs)

\* trigger_teardown: the next callback is called; one that raises is
\* caught and printed
unload_callback(k) ==
    /\ k \in DOMAIN tasks
    /\ connectPc = "running"
    /\ tasks[k].pc = "u_callbacks"
    /\ CallbacksLeft(ctxs[tasks[k].ctx].callbacks, tasks[k].i)
    /\ tasks' = [tasks EXCEPT ![k].i = @ + 1, ![k].invoked = Append(@, tasks[k].i + 1)]
    /\ rx' = NoFrame /\ sched' = << >> /\ wire' = << >> /\ UNCHANGED libVars
    /\ seen' = Seen(ctxs[tasks[k].ctx].plugin_id, worker_ident)
    /\ UNCHANGED worker_ident
    /\ UNCHANGED <<connVars, rpcVars, sockPc, plugin_handlers,
                   ext_service_instances, plugins, ctxs>>

\* after the callbacks: unregister_plugin, del self.plugins[plugin_id],
\* return {"status": "ok"}
unload_finish(k) ==
    /\ k \in DOMAIN tasks
    /\ connectPc = "running"
    /\ tasks[k].pc = "u_callbacks"
    /\ ~CallbacksLeft(ctxs[tasks[k].ctx].callbacks, tasks[k].i)
    /\ plugin_handlers' = UnregisterPlugin(plugin_handlers, tasks[k].arg)
    /\ IF tasks[k].arg \in DOMAIN plugins
       THEN /\ plugins' = Without(plugins, tasks[k].arg)
            /\ tasks' = Finish(tasks, k, Returned(StatusOk))
       ELSE /\ UNCHANGED plugins
            /\ tasks' = Finish(tasks, k, Raised)
    /\ rx' = NoFrame /\ sched' = << >> /\ wire' = << >> /\ UNCHANGED libVars
    /\ NoPluginCode
    /\ UNCHANGED <<connVars, rpcVars, sockPc, ext_service_instances, ctxs>>

(* ------------------------ extension services -------------------------- *)

\* PluginContext.get_ext_service(plugin_id) called on context c: RuntimeError
\* during the setup of c, else the instance registered under plugin_id
\* (the context that registered it stands for the instance), None if none
ServiceResult(raised, found, instance) ==
    [raised |-> raised, found |-> found, instance |-> instance]
\* a lookup that serves a context in its setup phase too
get_ext_service_in_setup(c, pid) ==
    IF pid \in DOMAIN ext_service_instances
    THEN ServiceResult(FALSE, TRUE, ext_service_instances[pid])
    ELSE ServiceResult(FALSE, FALSE, 0)
get_ext_service(c, pid) ==
    IF ctxs[c].initializing
    THEN ServiceResult(TRUE, FALSE, 0)
    ELSE IF pid \in DOMAIN ext_service_instances
    THEN ServiceResult(FALSE, TRUE, ext_service_instances[pid])
    ELSE ServiceResult(FALSE, FALSE, 0)

(* ----------------- the registry: folders and modules ------------------ *)

Venv == <<"v", "e", "n", "v">>
PyCache == <<"_", "_", "p", "y", "c", "a", "c", "h", "e", "_", "_">>
\* the names of the items of the plugin root
FolderNames == {<<"a">>, <<"b">>, Venv}
\* the ids manifests declare and the application asks to load
LoadIds == {<<"a">>, <<"a", "-", "b">>, <<"a", "_", "b">>}

\* manifest.json of a folder: absent, invalid (json.load raises, or gives a
\* value that is no dict, so that manifest.get raises), or an object with
\* or without the key "id"
NoManifest == [kind |-> "absent", hasId |-> FALSE, id |-> NoId]
BadManifest == [kind |-> "invalid", hasId |-> FALSE, id |-> NoId]
Manifest(hasId, id) == [kind |-> "object", hasId |-> hasId, id |-> id]
Manifests ==
    {NoManifest, BadManifest, Manifest(FALSE, NoId)}
        \cup {Manifest(TRUE, i) : i \in LoadIds}

\* an item of the plugin root: its name, whether it is a directory, its
\* manifest.json and whether it holds a main.py
Item(n, d, m, py) == [name |-> n, isdir |-> d, manifest |-> m, main |-> py]
Items ==
    {Item(n, FALSE, NoManifest, FALSE) : n \in FolderNames}
        \cup {Item(n, TRUE, m, py) : n \in FolderNames, m \in Manifests, py \in BOOLEAN}
\* os.listdir: items of distinct names, in the order the system lists them
Listings ==
    UNION {{l \in [1..n -> Items] : \A i, j \in 1..n : i # j => l[i].name # l[j].name}
              : n \in 0..MaxFolders}

\* a scan that returns the manifest of every folder, duplicates included
RECURSIVE ScanFromKeepsAll(_, _, _, _)
ScanFromKeepsAll(items, i, seen_ids, plugins_list) ==
    IF i > Len(items)
    THEN plugins_list
    ELSE LET item == items[i]
             plugin_id == IF item.manifest.hasId THEN item.manifest.id ELSE item.name
         IN IF ~item.isdir \/ item.name = Venv \/ item.name = PyCache
            THEN ScanFromKeepsAll(items, i + 1, seen_ids, plugins_list)
            ELSE IF item.manifest.kind # "object"
            THEN ScanFromKeepsAll(items, i + 1, seen_ids, plugins_list)
            ELSE ScanFromKeepsAll(items, i + 1, seen_ids \cup {plugin_id},
                                  Append(plugins_list, [folderName |-> item.name, id |-> plugin_id]))
\* the loop of _handle_scan_plugins from the i-th item on
RECURSIVE ScanFrom(_, _, _, _)
ScanFrom(items, i, seen_ids, plugins_list) ==
    IF i > Len(items)
    THEN plugins_list
    ELSE LET item == items[i]
             plugin_id == IF item.manifest.hasId THEN item.manifest.id ELSE item.name
         IN IF ~item.isdir \/ item.name = Venv \/ item.name = PyCache
            THEN ScanFrom(items, i + 1, seen_ids, plugins_list)
            ELSE IF item.manifest.kind # "object"
            THEN ScanFrom(items, i + 1, seen_ids, plugins_list)
            ELSE IF plugin_id \in seen_ids
            THEN ScanFrom(items, i + 1, seen_ids, plugins_list)
            ELSE ScanFrom(items, i + 1, seen_ids \cup {plugin_id},
                          Append(plugins_list, [folderName |-> item.name, id |-> plugin_id]))

\* the items whose manifest the first loop of _find_plugin_dir matches
ManifestHits(items, plugin_id) ==
    {i \in DOMAIN items :
        /\ items[i].isdir /\ items[i].name \notin {Venv, PyCache}
        /\ items[i].manifest.kind = "object"
        /\ items[i].manifest.hasId /\ items[i].manifest.id = plugin_id}
FindPluginDirFolderFirst(items, plugin_id) ==
    IF \E i \in DOMAIN items : items[i].name = plugin_id /\ items[i].isdir
    THEN plugin_id
    ELSE IF ManifestHits(items, plugin_id) # {}
    THEN LET first == CHOOSE i \in ManifestHits(items, plugin_id) :
                          \A j \in ManifestHits(items, plugin_id) : i <= j
         IN items[first].name
    ELSE NoDir
FindPluginDir(items, plugin_id) ==
    IF ManifestHits(items, plugin_id) # {}
    THEN LET first == CHOOSE i \in ManifestHits(items, plugin_id) :
                          \A j \in ManifestHits(items, plugin_id) : i <= j
         IN items[first].name
    ELSE IF \E i \in DOMAIN items : items[i].name = plugin_id /\ items[i].isdir
    THEN plugin_id
    ELSE NoDir

\* str.replace(old, new) for one-character old and new
Replace(s, old, new) == [i \in DOMAIN s |-> IF s[i] = old THEN new ELSE s[i]]
ModuleName(plugin_id) ==
    <<"p", "l", "u", "g", "i", "n", "_">> \o Replace(Replace(plugin_id, " ", "_"), "-", "_")

\* Module objects are numbered in the order module_from_spec created them.
ModuleForFresh(sm, module_name) == Cardinality(DOMAIN sm) + 1
\* the module object exec_module runs main.py in
ModuleFor(sm, module_name) ==
    IF module_name \in DOMAIN sm
    THEN sm[module_name]
    ELSE Cardinality(DOMAIN sm) + 1

\* what main.py does when it is executed and set up
EntryPoints == {"raises", "no_setup", "setup_raises", "setup_returns"}

\* {"error": str(e)} of the failures of a load
ErrorOf(msg) == [kind |-> "dict", err |-> msg, status |-> "-"]
MissingId == ErrorOf("Missing plugin id")
DirNotFound == ErrorOf("Plugin directory not found")
MainNotFound == ErrorOf("Plugin entry point 'main.py' not found")
EntryFailed(entry) == ErrorOf(entry)

\* PluginHost._handle_scan_plugins
scan_plugins ==
    /\ ret' = Call("scan_plugins", NoId, NoDir, 0, JList, ScanFrom(plugin_root, 1, {}, << >>))
    /\ UNCHANGED <<connVars, rpcVars, hostVars, sockPc, rx, wire, sched>>
    /\ UNCHANGED <<plugin_root, sys_modules, original_stream, lookup, loopVars, payload>>
    /\ NoPluginCode

\* PluginHost._handle_load_plugin, called with id pid (NoId: without id)
\* for a main.py that behaves as entry says
load_plugin(pid, entry) ==
    /\ UNCHANGED <<connVars, rpcVars, sockPc, rx, wire, sched>>
    /\ UNCHANGED <<plugin_handlers, ext_service_instances, tasks, plugin_root>>
    /\ UNCHANGED <<worker_ident, original_stream, lookup, loopVars, payload>>
    /\ LET dir == FindPluginDir(plugin_root, pid)
           module_name == ModuleName(pid)
           module == ModuleFor(sys_modules, module_name)
       IN IF pid = NoId
          THEN /\ entry = "raises"
               /\ ret' = Call("load_plugin", pid, NoDir, 0, MissingId, << >>)
               /\ UNCHANGED <<sys_modules, plugins, ctxs>>
          ELSE IF dir = NoDir
          THEN /\ entry = "raises"
               /\ ret' = Call("load_plugin", pid, NoDir, 0, DirNotFound, << >>)
               /\ UNCHANGED <<sys_modules, plugins, ctxs>>
          ELSE IF ~ \E i \in DOMAIN plugin_root :
                      plugin_root[i].name = dir /\ plugin_root[i].main
          THEN /\ entry = "raises"
               /\ ret' = Call("load_plugin", pid, dir, 0, MainNotFound, << >>)
               /\ UNCHANGED <<sys_modules, plugins, ctxs>>
          ELSE /\ sys_modules' = With(sys_modules, module_name, module)
               /\ IF entry = "raises"
                  THEN /\ ret' = Call("load_plugin", pid, dir, module, EntryFailed(entry), << >>)
                       /\ UNCHANGED <<plugins, ctxs>>
                  ELSE /\ Len(ctxs) < MaxCtx
                       /\ IF entry = "setup_returns"
                          THEN /\ ctxs' = Append(ctxs, [NewContext(pid) EXCEPT !.initializing = FALSE])
                               /\ plugins' = With(plugins, pid, Len(ctxs) + 1)
                               /\ ret' = Call("load_plugin", pid, dir, module, StatusOk, << >>)
                          ELSE /\ ctxs' = Append(ctxs, NewContext(pid))
                               /\ UNCHANGED plugins
                               /\ ret' = Call("load_plugin", pid, dir, module, EntryFailed(entry), << >>)
    /\ seen' = IF ret'.module # 0 THEN Seen(pid, pid) ELSE NotSeen

\* PluginHost._handle_unload_plugin of a plugin whose setup registered no
\* handler, no callback and no extension service
unload_plugin(pid) ==
    /\ NoPluginCode
    /\ UNCHANGED <<connVars, rpcVars, sockPc, rx, wire, sched>>
    /\ UNCHANGED <<plugin_handlers, ext_service_instances, tasks, plugin_root, sys_modules>>
    /\ UNCHANGED <<original_stream, lookup, loopVars, payload>>
    /\ IF pid \in DOMAIN plugins
       THEN /\ ctxs' = [ctxs EXCEPT ![plugins[pid]].running = FALSE]
            /\ plugins' = Without(plugins, pid)
            /\ ret' = Call("unload_plugin", pid, NoDir, 0, StatusOk, << >>)
       ELSE /\ UNCHANGED <<plugins, ctxs>>
            /\ ret' = Call("unload_plugin", pid, NoDir, 0, StatusNotFound, << >>)

(* ------------------- extension services: the calls -------------------- *)

\* the service objects plugins register
Instances == {1, 2}

\* _handle_load_plugin creates the context of a plugin and marks it as
\* initializing; setup(context) runs from here on
context_created(pid) ==
    /\ Len(ctxs) < MaxCtx
    /\ ctxs' = Append(ctxs, NewContext(pid))
    /\ UNCHANGED <<connVars, rpcVars, sockPc, rx, wire, sched, libVars, worker_ident, seen>>
    /\ UNCHANGED <<plugin_handlers, ext_service_instances, plugins, tasks>>

\* setup(context) returned: _is_initializing = False, plugins[id] = context
context_initialized(c) ==
    /\ c \in DOMAIN ctxs
    /\ ctxs[c].initializing /\ ctxs[c].running
    /\ ctxs' = [ctxs EXCEPT ![c].initializing = FALSE]
    /\ plugins' = With(plugins, ctxs[c].plugin_id, c)
    /\ UNCHANGED <<connVars, rpcVars, sockPc, rx, wire, sched, libVars, worker_ident, seen>>
    /\ UNCHANGED <<plugin_handlers, ext_service_instances, tasks>>

\* code of the plugin of context c (its setup, a handler, a thread of its
\* own) calls context.register_ext_service(instance)
register_ext_service(c, instance) ==
    /\ c \in DOMAIN ctxs
    /\ ext_service_instances' = With(ext_service_instances, ctxs[c].plugin_id, instance)
    /\ UNCHANGED <<connVars, rpcVars, sockPc, rx, wire, sched, libVars, worker_ident, seen>>
    /\ UNCHANGED <<plugin_handlers, plugins, ctxs, tasks>>

\* code of the plugin of context c calls context.get_ext_service(pid)
calls_get_ext_service(c, pid) ==
    /\ c \in DOMAIN ctxs
    /\ lookup' = Lookup(c, pid, get_ext_service(c, pid))
    /\ UNCHANGED <<connVars, rpcVars, hostVars, sockPc, rx, wire, sched>>
    /\ UNCHANGED <<registryVars, original_stream, worker_ident, seen, loopVars, payload>>

\* _handle_unload_plugin of a loaded plugin: _trigger_teardown of its
\* context, then del self.plugins[plugin_id]
context_torn_down(pid) ==
    /\ pid \in DOMAIN plugins
    /\ ctxs' = [ctxs EXCEPT ![plugins[pid]].running = FALSE]
    /\ ext_service_instances' = Without(ext_service_instances, pid)
    /\ plugins' = Without(plugins, pid)
    /\ UNCHANGED <<connVars, rpcVars, sockPc, rx, wire, sched, libVars, worker_ident, seen>>
    /\ UNCHANGED <<plugin_handlers, tasks>>

(* ------------------------ the loop and its tasks ---------------------- *)

\* on_message with a request, on the socket thread: _dispatch_request hands
\* async_wrapper() to the loop with run_coroutine_threadsafe
dispatch_request(k, co, calls) ==
    /\ coros[k].pc = "none"
    /\ \A j \in 1..(k - 1) : coros[j].pc # "none"
    /\ coros' = [coros EXCEPT ![k] = Coro(co, calls, "scheduled")]
    /\ UNCHANGED loop_thread
    /\ UNCHANGED <<connVars, rpcVars, hostVars, sockPc, rx, wire, sched>>
    /\ UNCHANGED <<registryVars, original_stream, lookup, worker_ident, seen, payload>>

\* the loop runs its callbacks one at a time on its own thread
LoopFree(lt) == lt = 0

\* the loop starts async_wrapper: a coroutine handler is awaited on the
\* loop's thread; a sync handler is given to the executor and the loop goes on
wrapper_starts(k) ==
    /\ coros[k].pc = "scheduled"
    /\ \A j \in 1..(k - 1) : coros[j].pc # "scheduled"
    /\ LoopFree(loop_thread)
    /\ coros' = [coros EXCEPT ![k].pc = IF coros[k].co THEN "running" ELSE "submitted"]
    /\ loop_thread' = IF coros[k].co THEN k ELSE 0
    /\ UNCHANGED <<connVars, rpcVars, hostVars, sockPc, rx, wire, sched>>
    /\ UNCHANGED <<registryVars, original_stream, lookup, worker_ident, seen, payload>>

\* a worker thread of the executor takes the oldest work item of the queue
\* and calls the sync handler
executor_starts(k) ==
    /\ coros[k].pc = "submitted"
    /\ \A j \in 1..(k - 1) : coros[j].pc # "submitted"
    /\ coros' = [coros EXCEPT ![k].pc = "running"]
    /\ UNCHANGED loop_thread
    /\ UNCHANGED <<connVars, rpcVars, hostVars, sockPc, rx, wire, sched>>
    /\ UNCHANGED <<registryVars, original_stream, lookup, worker_ident, seen, payload>>

\* the handler body calls PluginContext._call: call_app sends the request
\* and blocks its thread in event.wait
handler_calls_app(k) ==
    /\ coros[k].pc = "running" /\ coros[k].calls
    /\ coros' = [coros EXCEPT ![k].pc = "waiting", ![k].calls = FALSE]
    /\ UNCHANGED loop_thread
    /\ UNCHANGED <<connVars, rpcVars, hostVars, sockPc, rx, wire, sched>>
    /\ UNCHANGED <<registryVars, original_stream, lookup, worker_ident, seen, payload>>

\* on_message with the response, on the socket thread: the Event is set (or
\* the wait times out) and call_app goes on in the handler's thread
call_app_returns(k) ==
    /\ coros[k].pc = "waiting"
    /\ coros' = [coros EXCEPT ![k].pc = "running"]
    /\ UNCHANGED loop_thread
    /\ UNCHANGED <<connVars, rpcVars, hostVars, sockPc, rx, wire, sched>>
    /\ UNCHANGED <<registryVars, original_stream, lookup, worker_ident, seen, payload>>

\* a coroutine handler awaits (call_app_async, asyncio.sleep): it is
\* suspended and the loop's thread is free again
handler_awaits(k) ==
    /\ coros[k].pc = "running" /\ coros[k].co
    /\ loop_thread = k
    /\ coros' = [coros EXCEPT ![k].pc = "awaiting"]
    /\ loop_thread' = 0
    /\ UNCHANGED <<connVars, rpcVars, hostVars, sockPc, rx, wire, sched>>
    /\ UNCHANGED <<registryVars, original_stream, lookup, worker_ident, seen, payload>>

\* what the coroutine handler awaited is there: the loop resumes it on its
\* own thread
handler_resumes(k) ==
    /\ coros[k].pc = "awaiting"
    /\ LoopFree(loop_thread)
    /\ coros' = [coros EXCEPT ![k].pc = "running"]
    /\ loop_thread' = k
    /\ UNCHANGED <<connVars, rpcVars, hostVars, sockPc, rx, wire, sched>>
    /\ UNCHANGED <<registryVars, original_stream, lookup, worker_ident, seen, payload>>

\* the handler body ends: a coroutine handler's wrapper goes on at once on
\* the loop's thread, sends the response and is over; a sync handler's
\* wrapper waits for the loop to resume it
handler_ends(k) ==
    /\ coros[k].pc = "running" /\ ~coros[k].calls
    /\ coros' = [coros EXCEPT ![k].pc = IF coros[k].co THEN "done" ELSE "respond"]
    /\ loop_thread' = IF coros[k].co THEN 0 ELSE loop_thread
    /\ UNCHANGED <<connVars, rpcVars, hostVars, sockPc, rx, wire, sched>>
    /\ UNCHANGED <<registryVars, original_stream, lookup, worker_ident, seen, payload>>

\* the loop resumes the wrapper of a sync handler, which sends the response
wrapper_responds(k) ==
    /\ coros[k].pc = "respond"
    /\ LoopFree(loop_thread)
    /\ coros' = [coros EXCEPT ![k].pc = "done"]
    /\ UNCHANGED loop_thread
    /\ UNCHANGED <<connVars, rpcVars, hostVars, sockPc, rx, wire, sched>>
    /\ UNCHANGED <<registryVars, original_stream, lookup, worker_ident, seen, payload>>

(* ------------------------ the context's frames ------------------------ *)

\* the params plugin code passes: None, or a dict with or without the
\* members "pluginId" and "key"
ParamsArgs ==
    {None} \cup {Dict(d) : d \in UNION {[S -> {"p1", "p2", "k"}] : S \in SUBSET {"pluginId", "key"}}}
ApiMethods == {"alert", "get_plugins_info"}

\* PluginContext._call(method, params) on the context of plugin c:
\* call_app(self.plugin_id, method, params) builds the request
context_call(c, method, a) ==
    /\ payload' = Built("_call", c, "request", method, a)
    /\ UNCHANGED apiFrame

\* PluginContext._notify(method, params) on the context of plugin c
context_notify(c, method, a) ==
    /\ payload' = Built("_notify", c, "notification", method, a)
    /\ UNCHANGED apiFrame

\* PluginContext.get_plugin_info(plugin_id) on the context of plugin c:
\* self._call("get_plugins_info", {"pluginId": plugin_id})
get_plugin_info(c, plugin_id) ==
    /\ payload' = Built("get_plugin_info", c, "request", "get_plugins_info",
                         Dict(With(EmptyDict, "pluginId", plugin_id)))
    /\ UNCHANGED apiFrame

\* PluginContext.show_log_dialog(clear) on the context of plugin c:
\* self._notify("show_log_dialog", {"pluginId": self.plugin_id, "clear": clear})
show_log_dialog(c, clear) ==
    /\ payload' = Built("show_log_dialog", c, "notification", "show_log_dialog",
                         Dict(With(With(EmptyDict, "pluginId", c), "clear", clear)))
    /\ UNCHANGED apiFrame

(* ------------------------------ log sink ------------------------------ *)

\* the default of current_plugin_id
HostId == <<"h", "o", "s", "t">>
\* the values of current_plugin_id a write can run with
Identities == {HostId} \cup LoadIds
\* the pieces print hands to sys.stdout.write
Messages ==
    { << >>, <<"\n">>, <<"x">>, <<"x", "\n">>, <<" ", "[">>, <<"[">>,
      <<"[", "H", "]", " ", "x">>, <<"[", "a", "]", " ", "x">> }

\* message.startswith("[")
StartsWithBracket(message) == Len(message) >= 1 /\ message[1] = "["
\* f"[{plugin_id}] {message}"
Tagged(plugin_id, message) == <<"[">> \o plugin_id \o <<"]", " ">> \o message

\* a sink that tags whatever it is given
WrittenAlwaysTagged(plugin_id, message) ==
    IF message = << >> \/ message = <<"\n">>
    THEN message
    ELSE IF plugin_id = HostId
    THEN message
    ELSE Tagged(plugin_id, message)
\* what LogRedirector.write(message) writes to the original stream when
\* current_plugin_id.get() is plugin_id
Written(plugin_id, message) ==
    IF message = << >> \/ message = <<"\n">>
    THEN message
    ELSE IF plugin_id = HostId \/ StartsWithBracket(message)
    THEN message
    ELSE Tagged(plugin_id, message)

\* LogRedirector.write
write(plugin_id, message) ==
    /\ Len(original_stream) < MaxWrites
    /\ original_stream' = Append(original_stream,
                                 [ident |-> plugin_id, message |-> message,
                                  written |-> Written(plugin_id, message)])
    /\ UNCHANGED <<connVars, rpcVars, hostVars, sockPc, rx, wire, sched>>
    /\ UNCHANGED <<registryVars, worker_ident, seen, lookup, loopVars, payload>>

(* --------------------------- specification ---------------------------- *)

Connection ==
    \/ connect_start
    \/ connect_done
    \/ connect_timeout
    \/ main_loop_exit
    \/ on_open
    \/ sock_lost
    \/ on_close

OutboundCalls ==
    \E c \in Callers :
        \/ call_app_register(c)
        \/ call_app_send(c)
        \/ call_app_wake(c)
        \/ call_app_timeout(c)
        \/ call_app_timeout_cleanup(c)
        \/ notify(c)

InboundResponse ==
    \/ \E f \in InboundResponses : on_message_response(f)
    \/ on_message_store
    \/ \E f \in IgnoredFrames : on_message_ignored(f)

NextRpc == Connection \/ OutboundCalls \/ InboundResponse

Dispatch ==
    \/ \E f \in InboundRequests : on_message_request(f)
    \/ \E f \in InboundNotifications : on_message_notification_to(f)
    \/ \E f \in InboundNotifications : on_message_broadcast(f)
    \/ on_message_broadcast_next

HandlerRuns ==
    \E k \in 1..MaxTasks :
        \/ \E res \in PluginHandlerResults : plugin_handler_runs(k, res)
        \/ handle_scan_plugins(k)
        \/ task_respond(k)

LoadUnload ==
    \E k \in 1..MaxTasks :
        \/ \E ok \in BOOLEAN, setup \in SetupPrograms : handle_load_plugin(k, ok, setup)
        \/ setup_on(k)
        \/ setup_on_teardown(k)
        \/ setup_register_ext_service(k)
        \/ load_setup_raises(k)
        \/ load_finish(k)
        \/ handle_unload_plugin(k)
        \/ unload_teardown(k)
        \/ unload_callback(k)
        \/ unload_finish(k)

NextHost == Connection \/ Dispatch \/ HandlerRuns \/ LoadUnload

\* the connection, the dispatcher and the plugin registry (on_message with
\* requests and notifications, the handler executions, load and unload)
SpecHost == Init /\ [][NextHost]_vars

\* the connection and the outbound call path (call_app against on_message
\* and on_close)
SpecRpc == Init /\ [][NextRpc]_vars

InitRegistry == Constructed /\ plugin_root \in Listings

NextRegistry ==
    \/ scan_plugins
    \/ \E pid \in LoadIds \cup {NoId}, entry \in EntryPoints : load_plugin(pid, entry)
    \/ \E pid \in LoadIds \cup {NoId} : unload_plugin(pid)

\* the registry functions called one after the other (each is a handler the
\* dispatcher serializes per id) on a plugin root of any content
SpecRegistry == InitRegistry /\ [][NextRegistry]_vars

NextLog == \E plugin_id \in Identities, message \in Messages : write(plugin_id, message)

\* the log sink written to by code running under any identity
SpecLog == Init /\ [][NextLog]_vars

NextServices ==
    \/ \E pid \in PluginIds : context_created(pid)
    \/ \E c \in 1..MaxCtx : context_initialized(c)
    \/ \E c \in 1..MaxCtx, instance \in Instances : register_ext_service(c, instance)
    \/ \E c \in 1..MaxCtx, pid \in PluginIds : calls_get_ext_service(c, pid)
    \/ \E pid \in PluginIds : context_torn_down(pid)

\* the extension service directory used by the contexts of plugins that
\* are being loaded, are loaded or were unloaded
SpecServices == Init /\ [][NextServices]_vars

\* the load and unload requests for one plugin id, sent back to back
RaceRequests ==
    {InFrame(i, m, "-", "p1", FALSE, JNull) :
        i \in RequestIds, m \in {"load_plugin", "unload_plugin"}}
RaceSetups == { <<OnTeardown(FALSE)>> }

NextRace ==
    \/ connect_start
    \/ on_open
    \/ connect_done
    \/ \E f \in RaceRequests : dispatch_request_to_loop(f, MaxRace)
    \/ \E k \in 1..MaxRace :
        \/ \E setup \in RaceSetups : handle_load_plugin(k, TRUE, setup)
        \/ setup_on_teardown(k)
        \/ load_finish(k)
        \/ handle_unload_plugin(k)
        \/ unload_teardown(k)
        \/ unload_callback(k)
        \/ unload_finish(k)
        \/ task_respond(k)

\* the dispatcher and the executor with an application that sends its
\* load and unload requests for one id without waiting for the answers
SpecRace == Init /\ [][NextRace]_vars

NextApi ==
    \E c \in PluginIds :
        \/ \E m \in ApiMethods, a \in ParamsArgs : context_call(c, m, a)
        \/ \E m \in ApiMethods, a \in ParamsArgs : context_notify(c, m, a)
        \/ \E p \in PluginIds : get_plugin_info(c, p)
        \/ \E clear \in BOOLEAN : show_log_dialog(c, clear)

\* the frames the contexts of the loaded plugins build
SpecApi == Init /\ [][NextApi]_vars

\* load and unload requests for a plugin whose manifest declares the id
\* "host", and for an ordinary one
HostIdRequests ==
    {InFrame(i, m, "-", a, FALSE, JNull) :
        i \in RequestIds, m \in {"load_plugin", "unload_plugin"}, a \in {"host", "p1"}}
HostIdSetups == { <<On("scan_plugins")>>, << >> }

NextHostId ==
    \/ connect_start
    \/ on_open
    \/ connect_done
    \/ \E f \in HostIdRequests : on_message_request(f)
    \/ \E k \in 1..MaxTasks :
        \/ \E setup \in HostIdSetups : handle_load_plugin(k, TRUE, setup)
        \/ setup_on(k)
        \/ load_finish(k)
        \/ handle_unload_plugin(k)
        \/ unload_teardown(k)
        \/ unload_finish(k)
        \/ task_respond(k)

\* the dispatcher and the plugin registry with a plugin on disk whose id is
\* "host"
SpecHostId == Init /\ [][NextHostId]_vars

NextLoop ==
    \E k \in 1..MaxCoros :
        \/ \E co \in BOOLEAN, calls \in BOOLEAN : dispatch_request(k, co, calls)
        \/ wrapper_starts(k)
        \/ executor_starts(k)
        \/ handler_calls_app(k)
        \/ call_app_returns(k)
        \/ handler_awaits(k)
        \/ handler_resumes(k)
        \/ handler_ends(k)
        \/ wrapper_responds(k)

\* the socket thread, the loop's thread and the executor's threads at work
\* on the requests handed to the loop
SpecLoop == Init /\ [][NextLoop]_vars

(* ------------------------ claims: outbound calls ------------------------ *)

\* C1 (as claimed): a success response delivered to a waiting call makes
\* call_app return exactly the frame's result, whatever its shape, and the
\* delivery leaves every other caller and the table of pending calls alone.
C1_ResponseReturnsItsResult ==
    [][ /\ \A c \in Callers :
              ( /\ callers[c].pc = "waiting"
                /\ callers[c].got.frame = "result"
                /\ callers[c].id \in pending_requests
                /\ callers'[c].pc = "done" )
              => callers'[c].out = Outcome("return", callers[c].got.result)
        /\ (sockPc.st = "store" /\ sockPc'.st = "idle")
              => /\ pending_requests' = pending_requests
                 /\ \A d \in Callers :
                        callers[d].id # sockPc.frame.id => callers'[d] = callers[d]
      ]_vars

\* C2 (as claimed): a call whose wait timed out ends in TimeoutError with its
\* entry removed, and a response for its id that arrives after that is
\* dropped: nobody is woken, nothing is stored, no table changes.
C2_TimeoutThenLateResponseDropped ==
    [][ \A c \in Callers :
          /\ (callers[c].pc = "timedout" /\ callers'[c].pc = "done")
                => /\ callers'[c].out.kind = "TimeoutError"
                   /\ callers[c].id \notin pending_requests'
          /\ ( /\ callers[c].pc = "done"
               /\ callers[c].out.kind = "TimeoutError"
               /\ rx'.id = callers[c].id )
                => /\ sockPc' = SockIdle
                   /\ UNCHANGED <<pending_requests, responses, callers>>
      ]_vars

\* C3: when on_close runs, the table of pending calls is emptied and every
\* call blocked in its wait has its Event set; from then on such a call can
\* only end by raising out of responses.pop (never with a result, never by
\* its timeout).
C3_CloseFailsPendingCalls ==
    /\ [](sock = "closed" =>
            \A c \in Callers : callers[c].pc = "waiting" => callers[c].ev)
    /\ [][ /\ (sock = "lost" /\ sock' = "closed")
                => /\ pending_requests' = {}
                   /\ \A c \in Callers :
                          callers[c].pc = "waiting" => callers'[c].ev
           /\ \A c \in Callers :
                 (sock = "closed" /\ callers[c].pc = "waiting"
                    /\ callers'[c] # callers[c])
                 => /\ callers'[c].pc = "done"
                    /\ callers'[c].out.kind = "KeyErrorPop"
         ]_vars

\* a call that was waiting when the connection closed has failed
C3_Witness ==
    \E c \in Callers :
        /\ sock = "closed"
        /\ callers[c].pc = "done"
        /\ callers[c].out.kind = "KeyErrorPop"

\* C4 (as claimed): when call_app has returned or raised, the entry it
\* registered is no longer in pending_requests.
C4_EntryGoneWhenCallEnds ==
    \A c \in Callers :
        callers[c].pc = "done" => callers[c].id \notin pending_requests

(* --------------------- claims: inbound requests ------------------------ *)

\* rx is the header of a request / of a notification
IsRequest(h) == h.id # 0 /\ h.method # "-"
IsNotification(h) == h.id = 0 /\ h.method # "-"
\* the coroutines alive for the request with id i
TasksOf(i) == {k \in DOMAIN tasks : tasks[k].id = i}
\* the step ends the coroutine of the request with id i
Ends(i) == \A j \in DOMAIN tasks' : tasks'[j].id # i

\* C5 (as claimed): a request whose method has no handler in the host table
\* nor in the table of the plugin named by params.pluginId is answered with
\* one error response with the same id and code -32601; no handler is
\* started, and the dispatcher is ready for the next frame.
C5_UnknownMethodAnswered ==
    ( /\ IsRequest(rx)
      /\ HandlersGet(plugin_handlers, "host", rx.method) = NoHandler
      /\ rx.pluginId = "-"
            \/ HandlersGet(plugin_handlers, rx.pluginId, rx.method) = NoHandler )
    => /\ wire = <<OutError(rx.id, -32601)>>
       /\ TasksOf(rx.id) = {}
       /\ HostAlive
       /\ sockPc.st = "idle"

\* the response async_wrapper owes for a finished handler
OwedResponse(t) ==
    IF t.result.kind = "return"
    THEN [kind |-> "response", id |-> t.id, code |-> 0, result |-> t.result.val]
    ELSE [kind |-> "response", id |-> t.id, code |-> -32603, result |-> JNull]

\* C6: a request for which a handler was found stays with the loop until
\* its handler has returned or raised; then, the connection being up,
\* exactly one frame is sent for it: {id, result} with the value returned,
\* or {id, error: -32603} after a raise.  No other step sends a result or an
\* internal-error frame, and a raising handler leaves the host and the
\* dispatcher as they were.
C6_OneResponsePerHandledRequest ==
    [][ /\ \A k \in DOMAIN tasks :
              /\ (tasks[k].pc # "respond")
                    => \E j \in DOMAIN tasks' :
                          /\ tasks'[j].id = tasks[k].id
                          /\ tasks'[j].handler = tasks[k].handler
              /\ (tasks[k].pc = "respond" /\ Ends(tasks[k].id) /\ sock = "open")
                    => wire' = <<OwedResponse(tasks[k])>>
              /\ \A j \in DOMAIN tasks' :
                    ( /\ tasks'[j].id = tasks[k].id
                      /\ tasks[k].result.kind = "none"
                      /\ tasks'[j].result.kind = "raise" )
                    => /\ HostAlive'
                       /\ sockPc' = sockPc
                       /\ tasks'[j].pc = "respond"
        /\ \A j \in DOMAIN wire' :
              (wire'[j].kind = "response" /\ wire'[j].code # -32601)
                 => /\ Len(wire') = 1
                    /\ \E k \in DOMAIN tasks :
                          /\ tasks[k].pc = "respond"
                          /\ wire'[j] = OwedResponse(tasks[k])
                          /\ Ends(tasks[k].id)
      ]_vars

\* a handler raised and the internal-error response was sent
C6_Witness ==
    /\ sock = "open"
    /\ \E i \in RequestIds : wire = <<OutError(i, -32603)>>

\* C7: a request whose method the host table has a handler for goes to that
\* handler whatever its pluginId; a plugin's handler is started only for a
\* request that carries a pluginId, and then it is the handler registered
\* under that plugin id for the method, the host table having none.
C7_HostHandlerFirst ==
    IsRequest(rx) =>
        /\ HandlersGet(plugin_handlers, "host", rx.method) # NoHandler
              => /\ TasksOf(rx.id) # {}
                 /\ \A k \in TasksOf(rx.id) :
                        tasks[k].handler = HandlersGet(plugin_handlers, "host", rx.method)
        /\ \A k \in TasksOf(rx.id) :
              tasks[k].handler.ctx # 0
                 => /\ rx.pluginId # "-"
                    /\ HandlersGet(plugin_handlers, "host", rx.method) = NoHandler
                    /\ tasks[k].handler = HandlersGet(plugin_handlers, rx.pluginId, rx.method)
                    /\ ctxs[tasks[k].handler.ctx].plugin_id = rx.pluginId

\* a request for a method that both the host and the plugin it names handle
\* went to the host's handler
C7_Witness ==
    /\ IsRequest(rx)
    /\ rx.pluginId \in PluginIds
    /\ HandlersGet(plugin_handlers, rx.pluginId, rx.method) # NoHandler
    /\ \E k \in TasksOf(rx.id) : tasks[k].handler = HostFn(rx.method)

(* ----------------------- claims: notifications ------------------------- *)

\* C8 (as claimed): a notification with pluginId P starts at most the
\* handler registered under (P, method) and sends no frame; a notification
\* without pluginId starts the handler of every plugin that holds one for
\* the event, once each: the walk serves the holders in entry order, none
\* twice, and ends only when no plugin that was registered when the walk
\* began (its entry is one of the first sockPc.size) and holds a handler for
\* the event is left unserved.
C8_NotificationDelivery ==
    /\ [](IsNotification(rx) =>
            /\ wire = << >>
            /\ rx.pluginId # "-" =>
                  sched = IF HandlersGet(plugin_handlers, rx.pluginId, rx.method) # NoHandler
                          THEN <<HandlersGet(plugin_handlers, rx.pluginId, rx.method)>>
                          ELSE << >>)
    /\ [][ /\ (sockPc'.st = "bcast" /\ sockPc' # sockPc)
                => /\ sockPc'.pos > sockPc.pos
                   /\ \A j \in Hits(plugin_handlers, sockPc.pos, sockPc'.method) :
                          j >= sockPc'.pos
                   /\ sched' = <<plugin_handlers[sockPc'.pos].tab[sockPc'.method]>>
           /\ (sockPc.st = "bcast" /\ sockPc'.st = "idle")
                => \A j \in Hits(plugin_handlers, sockPc.pos, sockPc.method) :
                       j > sockPc.size
           /\ (sockPc.st = "idle" /\ sockPc'.st = "idle" /\ IsNotification(rx')
                 /\ rx'.pluginId = "-")
                => Hits(plugin_handlers, 0, rx'.method) = {}
         ]_vars

(* --------------------------- claims: unload ---------------------------- *)

\* the unloads that have returned {"status": "ok"} and wait to be answered
UnloadedOk ==
    {k \in DOMAIN tasks :
        /\ tasks[k].handler = HostFn("unload_plugin")
        /\ tasks[k].pc = "respond"
        /\ tasks[k].result = Returned(StatusOk)}

\* C9: when unload_plugin(P) has returned ok, P has no entry in
\* plugin_handlers, in ext_service_instances and in plugins; a notification
\* or a request addressed to P starts no handler of a plugin, and
\* get_ext_service(P) finds nothing.
C9_UnloadedPluginIsGone ==
    \A k \in UnloadedOk :
        LET P == tasks[k].arg IN
        /\ P \notin Keys(plugin_handlers)
        /\ P \notin DOMAIN ext_service_instances
        /\ P \notin DOMAIN plugins
        /\ \A m \in Events \cup HostMethods :
              /\ TargetedDispatch(plugin_handlers, P, m) = << >>
              /\ LookupRequest(plugin_handlers, InFrame(1, m, P, "-", FALSE, JNull)).ctx = 0
        /\ \A c \in DOMAIN ctxs :
              ~ctxs[c].initializing =>
                  /\ ~get_ext_service(c, P).raised
                  /\ ~get_ext_service(c, P).found

\* the unload of a plugin that had a handler and an extension service
\* has returned ok
C9_Witness ==
    \E k \in UnloadedOk :
        /\ ctxs[tasks[k].ctx].callbacks = <<TRUE, FALSE>>
        /\ \E c \in DOMAIN ctxs : ~ctxs[c].initializing

\* C10: the unload of a loaded plugin calls the teardown callbacks of its
\* context in registration order, each once, goes on after one that raises,
\* and ends with all of them called, the entries of the plugin removed and
\* {"status": "ok"} returned.
C10_TeardownRunsEveryCallback ==
    \A k \in DOMAIN tasks :
        (tasks[k].handler = HostFn("unload_plugin") /\ tasks[k].ctx # 0) =>
            LET n == Len(ctxs[tasks[k].ctx].callbacks) IN
            /\ Len(tasks[k].invoked) <= n
            /\ \A j \in DOMAIN tasks[k].invoked : tasks[k].invoked[j] = j
            /\ tasks[k].pc = "respond" =>
                  /\ Len(tasks[k].invoked) = n
                  /\ tasks[k].result = Returned(StatusOk)
                  /\ tasks[k].arg \notin Keys(plugin_handlers)
                  /\ tasks[k].arg \notin DOMAIN ext_service_instances
                  /\ tasks[k].arg \notin DOMAIN plugins

\* an unload has ended after a first callback that raised and a second one
C10_Witness ==
    \E k \in DOMAIN tasks :
        /\ tasks[k].handler = HostFn("unload_plugin")
        /\ tasks[k].pc = "respond"
        /\ tasks[k].ctx # 0
        /\ ctxs[tasks[k].ctx].callbacks = <<TRUE, FALSE>>
        /\ tasks[k].invoked = <<1, 2>>

(* ---------------------------- claims: load ----------------------------- *)

\* the step ends the handler of coroutine k: its result is that of j after
HandlerEnds(k, j) ==
    /\ k \in DOMAIN tasks /\ j \in DOMAIN tasks'
    /\ tasks'[j].id = tasks[k].id
    /\ tasks[k].pc # "respond"
    /\ tasks'[j].pc = "respond"

\* C11 (as claimed): a load that fails returns {"error": message}, never
\* raises, and leaves plugins as it was; plugins[id] is set only by a load
\* whose setup has made all its calls and returned, and no other entry of
\* plugins changes with it.
C11_FailedLoadReturnsError ==
    [][ /\ \A k \in DOMAIN tasks : \A j \in DOMAIN tasks' :
              (HandlerEnds(k, j) /\ tasks[k].handler = HostFn("load_plugin"))
                 => \/ /\ tasks'[j].result = Returned(StatusOk)
                       /\ tasks[k].pc = "l_setup"
                       /\ tasks[k].i = Len(tasks[k].setup)
                       /\ plugins' = With(plugins, tasks[k].arg, tasks[k].ctx)
                    \/ /\ tasks'[j].result.kind = "return"
                       /\ tasks'[j].result.val.kind = "dict"
                       /\ tasks'[j].result.val.err # "-"
                       /\ plugins' = plugins
        /\ \A p \in DOMAIN plugins' :
              (p \notin DOMAIN plugins \/ plugins'[p] # plugins[p])
                 => \E k \in DOMAIN tasks : \E j \in DOMAIN tasks' :
                       /\ HandlerEnds(k, j)
                       /\ tasks[k].handler = HostFn("load_plugin")
                       /\ tasks[k].arg = p
                       /\ tasks'[j].result = Returned(StatusOk)
      ]_vars

(* -------------------------- claims: registry --------------------------- *)

\* this step is a call of load_plugin that executed main.py
Executes == ret'.op = "load_plugin" /\ ret'.module # 0 /\ ret' # ret

\* C12: every load of a plugin id that gets as far as executing main.py
\* executes it in the module object registered under the module name of
\* that id, a name computed from the id alone; if a module was registered
\* under that name before (by an earlier load of the id, unloaded since or
\* not), it is that same object, and no load or unload ever replaces or
\* removes the object registered under a name: one object per id, executed
\* again in place on reload.
C12_ReloadReusesModule ==
    [][ /\ Executes =>
            /\ ModuleName(ret'.id) \in DOMAIN sys_modules'
            /\ ret'.module = sys_modules'[ModuleName(ret'.id)]
            /\ ModuleName(ret'.id) \in DOMAIN sys_modules
                   => ret'.module = sys_modules[ModuleName(ret'.id)]
        /\ \A n \in DOMAIN sys_modules :
               n \in DOMAIN sys_modules' /\ sys_modules'[n] = sys_modules[n]
      ]_vars

\* the same id was loaded twice and unloaded in between: its second
\* Context is registered, its first one was torn down, and one module
\* object exists
C12_Witness ==
    /\ ret.op = "load_plugin" /\ ret.module = 1 /\ ret.value = StatusOk
    /\ Len(ctxs) = 2 /\ ctxs[1].plugin_id = ret.id /\ ~ctxs[1].running
    /\ ret.id \in DOMAIN plugins /\ plugins[ret.id] = 2
    /\ DOMAIN sys_modules = {ModuleName(ret.id)}

(* -------------------------- claims: identity --------------------------- *)

\* C13 (as claimed): whenever code of a plugin runs (a handler body, a call
\* made by setup, a teardown callback), the current_plugin_id it runs with
\* is the id of that plugin; and once no load is inside setup the executor
\* thread's current_plugin_id is back at its previous value, "host".
C13_PluginCodeSeesItsId ==
    /\ seen.owner # "-" => seen.ident = seen.owner
    /\ (\A k \in DOMAIN tasks : tasks[k].pc # "l_setup") => worker_ident = "host"

(* --------------------------- claims: log sink -------------------------- *)

\* C14: of every write, a message that is neither empty nor a bare newline
\* reaches the stream unchanged if the identity is "host" or the message
\* starts with "[", and with "[<identity>] " put before it otherwise; an
\* empty message or a bare newline reaches it unchanged; and nothing is
\* tagged twice: a tagged message started without "[", and what reached
\* the stream would pass a second write under the same identity unchanged.
C14_TaggedOnce ==
    \A n \in DOMAIN original_stream :
        LET w == original_stream[n] IN
        /\ (w.message # << >> /\ w.message # <<"\n">>) =>
               IF w.ident = HostId \/ (Len(w.message) >= 1 /\ w.message[1] = "[")
               THEN w.written = w.message
               ELSE w.written = <<"[">> \o w.ident \o <<"]", " ">> \o w.message
        /\ (w.message = << >> \/ w.message = <<"\n">>) => w.written = w.message
        /\ w.written # w.message => w.message[1] # "["
        /\ Written(w.ident, w.written) = w.written

\* a plugin's plain message was tagged, and its message that carries a
\* bracket prefix already was not
C14_Witness ==
    /\ Len(original_stream) = 2
    /\ original_stream[1].ident = <<"a">>
    /\ original_stream[1].message = <<"x">>
    /\ original_stream[1].written = <<"[", "a", "]", " ", "x">>
    /\ original_stream[2].ident = <<"a">>
    /\ original_stream[2].message = <<"[", "a", "]", " ", "x">>
    /\ original_stream[2].written = <<"[", "a", "]", " ", "x">>

\* the folders the scan reads a manifest object from, and the id each gives
Readable(i) ==
    /\ plugin_root[i].isdir /\ plugin_root[i].name \notin {Venv, PyCache}
    /\ plugin_root[i].manifest.kind = "object"
IdOf(i) ==
    IF plugin_root[i].manifest.hasId THEN plugin_root[i].manifest.id ELSE plugin_root[i].name

\* C15: the list scan_plugins returns has one entry per distinct plugin id:
\* no two entries have the same id, every id a scanned folder gives has an
\* entry, and the entry of an id comes from the first folder in scan order
\* that gives it, with folderName the name of that folder and id the id its
\* manifest declares; a folder without a manifest, or with one that cannot
\* be read as an object, has no entry, and the folders after it are scanned.
C15_OneManifestPerId ==
    ret.op = "scan_plugins" =>
        /\ \A m, n \in DOMAIN ret.list : m # n => ret.list[m].id # ret.list[n].id
        /\ \A i \in DOMAIN plugin_root :
               Readable(i) => \E m \in DOMAIN ret.list : ret.list[m].id = IdOf(i)
        /\ \A m \in DOMAIN ret.list : \E i \in DOMAIN plugin_root :
               /\ Readable(i)
               /\ ret.list[m].folderName = plugin_root[i].name
               /\ ret.list[m].id = IdOf(i)
               /\ plugin_root[i].manifest.hasId => ret.list[m].id = plugin_root[i].manifest.id
               /\ \A j \in DOMAIN plugin_root : (j < i /\ Readable(j)) => IdOf(j) # IdOf(i)
        /\ \A i \in DOMAIN plugin_root :
               ~Readable(i) => \A m \in DOMAIN ret.list : ret.list[m].folderName # plugin_root[i].name

\* two folders declare the same id, and the scan returned the first alone
C15_Witness ==
    /\ ret.op = "scan_plugins"
    /\ Len(plugin_root) = 2
    /\ Readable(1) /\ Readable(2)
    /\ plugin_root[1].manifest.hasId /\ plugin_root[2].manifest.hasId
    /\ plugin_root[1].manifest.id = plugin_root[2].manifest.id
    /\ ret.list = <<[folderName |-> plugin_root[1].name, id |-> plugin_root[1].manifest.id]>>

\* item i is a folder whose manifest declares the id pid
Declares(i, pid) ==
    /\ plugin_root[i].isdir
    /\ plugin_root[i].manifest.kind = "object"
    /\ plugin_root[i].manifest.hasId /\ plugin_root[i].manifest.id = pid
\* a folder of the plugin root is named pid
FolderNamed(pid) ==
    \E i \in DOMAIN plugin_root : plugin_root[i].isdir /\ plugin_root[i].name = pid

LooksUp == lookup' # lookup

\* this step is a call of register_ext_service(instance) by context c
Registers(c, instance) ==
    /\ c \in DOMAIN ctxs
    /\ ext_service_instances' # ext_service_instances
    /\ ctxs[c].plugin_id \in DOMAIN ext_service_instances'
    /\ ext_service_instances'[ctxs[c].plugin_id] = instance
    /\ UNCHANGED <<ctxs, plugins>>

\* C17: a call of get_ext_service by a context in its initializing phase
\* raises and changes nothing; a call by a context that is not returns,
\* without raising, the instance registered last under the requested id,
\* or nothing when none is registered: a registration puts its instance in
\* the place of the one registered before under the plugin's id, and
\* between registrations only the unload of the plugin takes it away.
C17_LookupAfterSetupOnly ==
    [][ /\ LooksUp =>
            /\ UNCHANGED <<ext_service_instances, ctxs, plugins, plugin_handlers>>
            /\ IF ctxs[lookup'.caller].initializing
               THEN lookup'.raised /\ ~lookup'.found
               ELSE /\ ~lookup'.raised
                    /\ lookup'.found = (lookup'.id \in DOMAIN ext_service_instances)
                    /\ lookup'.found => lookup'.instance = ext_service_instances[lookup'.id]
        /\ \A pid \in PluginIds :
              \/ /\ pid \in DOMAIN ext_service_instances'
                 /\ pid \in DOMAIN ext_service_instances
                 /\ ext_service_instances'[pid] = ext_service_instances[pid]
              \/ pid \notin DOMAIN ext_service_instances' /\ pid \notin DOMAIN ext_service_instances
              \/ \E c \in DOMAIN ctxs, instance \in Instances :
                    ctxs[c].plugin_id = pid /\ Registers(c, instance)
              \/ /\ pid \notin DOMAIN ext_service_instances'
                 /\ pid \in DOMAIN plugins /\ pid \notin DOMAIN plugins'
      ]_vars

\* the context of p2, past its setup, looked up p1 and got the instance
\* that is registered under p1
C17_Witness ==
    /\ lookup.caller \in DOMAIN ctxs /\ ~ctxs[lookup.caller].initializing
    /\ lookup.id = "p1" /\ lookup.found /\ lookup.instance = 2
    /\ Len(ctxs) = 2 /\ ctxs[1].plugin_id = "p1" /\ ctxs[2].plugin_id = "p2"
    /\ lookup.caller = 2
    /\ "p1" \in DOMAIN ext_service_instances /\ ext_service_instances["p1"] = 2

(* ------------------------ claims: RPC errors --------------------------- *)

\* C18 (as claimed): a call whose response was delivered ends with the RPC
\* error ("App Error: <message>") exactly when the response frame had an
\* "error" member; a call whose response frame was a success frame never
\* ends with that error, whatever the result in the frame is.
C18_ErrorIffErrorFrame ==
    [][ \A c \in Callers :
          ( /\ callers[c].pc = "waiting"
            /\ callers'[c].pc = "done"
            /\ callers[c].got.frame # "none"
            /\ callers[c].id \in pending_requests
            /\ callers[c].id \in DOMAIN responses )
          => (callers'[c].out.kind = "AppError" <=> callers[c].got.frame = "error")
      ]_vars

(* ------------------------ claims: notifications out -------------------- *)

\* this step is a call of _notify by thread c
Notifies(c) ==
    /\ callers'[c].pc = "notified"
    /\ callers[c].pc # "notified" \/ (wire' = <<OutNotification>> /\ callers' = callers)

\* C19: a call of _notify adds no entry to pending_requests, leaves
\* pending_requests and responses as they are, disturbs no call of another
\* thread, and returns to its caller without raising; it sends exactly one
\* frame, a notification without id, when the connection is up, and no
\* frame when it is not.
C19_NotifyTouchesNoCall ==
    [][ \A c \in Callers :
          Notifies(c) =>
             /\ pending_requests' = pending_requests
             /\ responses' = responses
             /\ onWire' = onWire
             /\ \A d \in Callers \ {c} : callers'[d] = callers[d]
             /\ callers'[c].out = Outcome("notify_returned", JNull)
             /\ IF isRunning /\ sock = "open"
                THEN Len(wire') = 1 /\ wire'[1].kind = "notification" /\ wire'[1].id = 0
                ELSE wire' = << >>
      ]_vars

\* a notification was sent while a call of another thread was pending
C19_Witness ==
    /\ \E c \in Callers : callers[c].pc = "notified"
    /\ wire = <<OutNotification>>
    /\ pending_requests # {}
    /\ \E d \in Callers : callers[d].pc = "waiting"

(* -------------------------- claims: scheduling ------------------------- *)

\* the handler body of coroutine j is under way: it runs, or it is blocked
\* in a synchronous outbound call
InHandler(j) == coros[j].pc \in {"running", "waiting"}
\* coroutine k is the next the loop is to start
NextToStart(k) ==
    coros[k].pc = "scheduled" /\ \A j \in 1..(k - 1) : coros[j].pc # "scheduled"

\* C20 (as claimed): while the handler of a request is under way, running
\* long or blocked in a synchronous outbound call, sync or async alike, the
\* response to its outbound call can be delivered and end the call, and
\* the handler of a later request can start.
C20_BlockedHandlerStallsNothing ==
    \A j \in 1..MaxCoros :
        /\ coros[j].pc = "waiting" => ENABLED call_app_returns(j)
        /\ InHandler(j) =>
              \A k \in 1..MaxCoros : NextToStart(k) => ENABLED wrapper_starts(k)

(* --------------------------- claims: lifetime -------------------------- *)

\* C21 (as claimed): once the close callback has run, the connection is
\* marked not running, whatever connect() was doing when it ran.
C21_ClosedStaysNotRunning == sock = "closed" => ~isRunning

(* ------------------------- claims: load/unload ------------------------- *)

\* the handler of load or unload request k is past its first statement and
\* has not returned
UnderWay(k) == tasks[k].pc \in {"l_setup", "u_teardown", "u_callbacks"}

\* C22 (as claimed): of two load/unload requests for one plugin id that
\* arrive back to back, the handler of the second starts only after the
\* handler of the first has finished, and neither ends in an internal error.
C22_SameIdNeverConcurrent ==
    /\ \A j, k \in DOMAIN tasks :
         (j # k /\ tasks[j].arg = tasks[k].arg) => ~(UnderWay(j) /\ UnderWay(k))
    /\ \A k \in DOMAIN tasks : tasks[k].result # Raised

(* ------------------------ claims: registry lock ------------------------ *)

\* C23 (as claimed): the walk of the registry for a broadcast holds the
\* registry lock, and so does every mutation: between two steps of one walk
\* no registration or unregistration changes the registry.
C23_WalkSeesNoChange ==
    [][(sockPc.st = "bcast" /\ sockPc'.st = "bcast")
          => plugin_handlers' = plugin_handlers]_vars

(* ------------------------ claims: context flags ------------------------ *)

\* the setup call that was handed context c is executing
InSetup(c) == \E k \in DOMAIN tasks : tasks[k].pc = "l_setup" /\ tasks[k].ctx = c

\* C24 (as claimed): the initializing flag of a context is true exactly
\* while its setup call is executing: it is false once setup has returned
\* or raised.
C24_InitializingOnlyDuringSetup ==
    \A c \in DOMAIN ctxs : ctxs[c].initializing <=> InSetup(c)

\* this step is the unload of plugin pid returning {"status": "ok"}
UnloadReturnsOk(pid) ==
    \E k \in DOMAIN tasks :
        /\ tasks[k].pc = "u_callbacks" /\ tasks[k].arg = pid
        /\ tasks'[k].pc = "respond" /\ tasks'[k].result = Returned(StatusOk)

\* C25 (as claimed): the running flag of a context is set to false by the
\* unload of its plugin and by nothing else, before any teardown callback
\* runs; it never becomes true again; and once the plugin is unloaded the
\* flag of every context the plugin was loaded with is false.
C25_RunningUntilUnload ==
    [][\A c \in DOMAIN ctxs :
          /\ ~ctxs[c].running => ~ctxs'[c].running
          /\ (ctxs[c].running /\ ~ctxs'[c].running)
                => \E k \in DOMAIN tasks :
                      /\ tasks[k].pc = "u_teardown" /\ tasks'[k].pc = "u_callbacks"
                      /\ tasks'[k].ctx = c /\ tasks'[k].invoked = << >>
          /\ (~ctxs[c].initializing /\ UnloadReturnsOk(ctxs[c].plugin_id))
                => ~ctxs'[c].running
      ]_vars

\* C26 (as claimed): a plugin id that is loaded again without an unload in
\* between has the context of its earlier load invalidated: of the contexts
\* a plugin id was loaded with, at most one has running = true.
C26_OneRunningContextPerId ==
    \A c, d \in DOMAIN ctxs :
        (/\ c # d
         /\ ctxs[c].plugin_id = ctxs[d].plugin_id
         /\ ~ctxs[c].initializing /\ ~ctxs[d].initializing)
            => ~(ctxs[c].running /\ ctxs[d].running)

(* ------------------------ claims: ignored frames ----------------------- *)

\* header h is that of a message on_message has nothing to do with: no JSON
\* text, neither id nor method, or a response whose id no call awaits
Ignored(h) ==
    \/ h = Header(Unparseable)
    \/ (h.id = 0 /\ h.method = "-" /\ h # NoFrame)
    \/ (h.id > 0 /\ h.method = "-" /\ h.id \notin pending_requests)

\* C27: on_message with a response whose id matches no pending call, with a
\* frame that has neither id nor method, or with a message that does not
\* parse, changes neither the table of pending calls, the response slots,
\* the handler registry nor the plugin registry, wakes no caller, sends no
\* frame and starts no handler; the socket thread is ready for the next
\* frame and the host lives on.
C27_IgnoredFramesChangeNothing ==
    [][Ignored(rx')
          => /\ UNCHANGED <<pending_requests, responses, plugin_handlers, plugins>>
             /\ UNCHANGED <<callers, tasks, connVars>>
             /\ wire' = << >> /\ sched' = << >>
             /\ sockPc' = SockIdle
      ]_vars

\* a message that does not parse arrived while a call was waiting
C27_Witness ==
    /\ rx = Header(Unparseable)
    /\ pending_requests # {}
    /\ \E c \in Callers : callers[c].pc = "waiting"

(* --------------------------- claims: ordering -------------------------- *)

\* the handler body of coroutine k has not begun
NotStarted(k) == coros[k].pc \in {"none", "scheduled", "submitted"}

\* C28 (as claimed): of two frames for one plugin, the handler of the frame
\* received first starts before the handler of the frame received second,
\* whether the handlers are sync or async.
C28_HandlersStartInWireOrder ==
    [][\A k \in 1..MaxCoros :
          (NotStarted(k) /\ coros'[k].pc = "running")
              => \A j \in 1..(k - 1) : ~NotStarted(j)
      ]_vars

(* ------------------------- claims: attribution ------------------------- *)

\* C29: every request and notification a context builds carries the
\* context's own plugin id as params.pluginId, whatever pluginId the
\* caller's params held.
C29_FrameCarriesOwnId ==
    payload # NoPayload => payload.params["pluginId"] = payload.ctx

\* a frame was built from params that named another plugin
C29_Witness ==
    /\ payload.api \in {"_call", "_notify"}
    /\ payload.args.given
    /\ "pluginId" \in DOMAIN payload.args.dict
    /\ payload.args.dict["pluginId"] # payload.ctx

\* C30 (as claimed): the request get_plugin_info(p) issues names plugin p
\* in its params as the plugin asked about, also when p is not the caller.
C30_GetPluginInfoNamesTarget ==
    payload.api = "get_plugin_info"
        => payload.params["pluginId"] = payload.args.dict["pluginId"]

(* ------------------------ claims: response slots ----------------------- *)

\* C31 (as claimed): under every interleaving of the socket thread with the
\* calling threads, every stored response slot belongs to a pending call:
\* the keys of responses are keys of pending_requests.
C31_SlotsBelongToPendingCalls == DOMAIN responses \subseteq pending_requests

(* ------------------------ claims: host handlers ------------------------ *)

\* C32 (as claimed): load_plugin, unload_plugin and scan_plugins stay
\* registered under "host", bound to the host's own functions, whatever is
\* loaded and unloaded, a plugin with the id "host" included.
C32_HostHandlersStay ==
    \A m \in HostMethods : HandlersGet(plugin_handlers, "host", m) = HostFn(m)

\* C33 (as claimed): a notification never starts a handler of the host:
\* no coroutine handed to the loop for a notification, broadcast or
\* targeted, runs one of the host's own functions.
C33_NotificationStartsNoHostHandler ==
    \A i \in DOMAIN sched : sched[i].ctx # 0

(* ------------------------- claims: leftovers --------------------------- *)

\* C34 (as claimed): whenever no load is in progress, the handler registry
\* holds tables only for "host" and for the plugins that are loaded, and
\* the extension services are those of loaded plugins: a failed setup
\* leaves nothing behind.
C34_NoLeftovers ==
    (\A k \in DOMAIN tasks : tasks[k].pc # "l_setup")
        => /\ Keys(plugin_handlers) \subseteq {"host"} \cup DOMAIN plugins
           /\ DOMAIN ext_service_instances \subseteq DOMAIN plugins

(* ------------------------ claims: module identity ---------------------- *)

\* C35 (as claimed): a load of plugin id B that follows a load of another
\* id A executes B's main.py in a module object of its own, never in the
\* module object A's main.py was executed in.
C35_DistinctIdsDistinctModules ==
    [][(ret.op = "load_plugin" /\ ret.module # 0 /\ Executes /\ ret'.id # ret.id)
          => ret'.module # ret.module]_vars

(* --------------------- claims: discovery against load ------------------ *)

\* C36 (as claimed): for every entry (id, folderName) of the list
\* scan_plugins returned, _find_plugin_dir resolves id, on the same
\* directory contents, to the folder folderName.
C36_ScanAndLoadAgree ==
    ret.op = "scan_plugins" =>
        \A i \in DOMAIN ret.list :
            FindPluginDir(plugin_root, ret.list[i].id) = ret.list[i].folderName

====
